---- MODULE Spec2Model ----
(***************************************************************************)
(* Model of TeleComfy's admission and scheduling controller                *)
(* (app/infra/jobs_queue.py, class JobsQueue) as an asyncio program: one   *)
(* action per stretch of code that runs between two suspension points.     *)
(*                                                                         *)
(* Suspension points of the source: `await q.get()` on an empty queue,     *)
(* `async with self._global_sema` when no permit is free, `await           *)
(* processor(job)`, and `await t` in shutdown().  The asyncio.Lock         *)
(* `self._lock` is never held across a suspension point (the queues are    *)
(* unbounded, so `await q.put(job)` returns at once), hence it is never    *)
(* contended and every method that takes it runs as one step.              *)
(*                                                                         *)
(* The processor the controller calls runs the protocol client             *)
(* (app/comfy/client.py, ComfyClient.submit_and_wait), a blocking call in  *)
(* a thread of its own: one action per blocking operation of the call      *)
(* (connect, POST /prompt, the loop's deadline test, recv, GET /history),  *)
(* with a wall clock that advances between them.                           *)
(***************************************************************************)
EXTENDS Integers, Sequences, FiniteSets, TLC

(*************************** bounds of the model ***************************)
\* placeholder message ids handed out to jobs: 1..MaxJobs
MaxJobs == 2
\* reservations (reserve_user_slot succeeded, enqueue not yet called) that
\* callers hold at the same time
MaxResv == 1
\* message ids, and the per-requester limit every admission passes, in the
\* specification of disciplined admission (SpecLimited)
MaxJobsLimited == 4
AdmitLimit == 1
\* jobs of requesters that are not identified in a run of SpecLimited
MaxAnonymous == 1

\* topic aliases (strings in the source)
Aliases == {"a", "b"}
\* requester ids: 0 is the anonymous requester (cb.from_user is None)
Users == {0, 1, 2}
\* values of the constructor arguments <<max_workers, per_topic_limit>>; the
\* defaults are 2 and 1, and a per_topic_limit below 1 is raised to 1
Configs == {<<1, 0>>, <<1, 1>>, <<2, 1>>, <<2, 2>>}
\* Optional[int] per_user_limit arguments: NoneLimit stands for Python's None
NoneLimit == -9
Limits == {NoneLimit, 0, 1, 2}

JobIds == 1..MaxJobs
\* Python's None where a job is expected (the poison pill of shutdown)
NoJob == 0

(****************************** dictionaries *******************************)
Get(d, k, default) == IF k \in DOMAIN d THEN d[k] ELSE default
Put(d, k, v) == [x \in (DOMAIN d) \cup {k} |-> IF x = k THEN v ELSE d[x]]
Pop(d, k) == [x \in (DOMAIN d) \ {k} |-> d[x]]
EmptyDict == [x \in {} |-> 0]

VARIABLES
    max_workers,      \* self._max_workers, the size of the global semaphore
    per_topic_limit,  \* self._per_topic_limit
    queues,           \* self._queues: alias -> sequence of job ids / NoJob
    workers,          \* self._workers: alias -> [index -> worker task state]
    sema_value,       \* self._global_sema: free permits
    sema_waiters,     \* self._global_sema: FIFO of workers blocked in acquire
    processor,        \* self._processor is not None
    closed,           \* self._closed
    active_per_topic, \* self._active_per_topic
    active_global,    \* self._active_global
    registry,         \* self._registry: the message ids registered
    pending_by_user,  \* self._pending_by_user
    jobs,             \* the GenerateJob objects created so far, by message id
    worker_keys,      \* insertion order of the keys of self._workers
    shutdown_st,      \* the shutdown() coroutine: pc, iterator position and size
    resv,             \* history: reservations callers hold, per requester
    freed,            \* history: _dec_pending calls made for each job
    invoked,          \* history: processor calls made for each job
    cancel_true       \* history: cancel_job calls that returned True, per job

VARIABLES
    call,             \* one submit_and_wait call: its position, locals and outcome
    clock             \* time.time()

VARIABLES
    resolve,          \* one run of the media collection of submit_and_wait
    render,           \* one prepare_workflow call
    process           \* one _process_generate_job call (bot.py)

\* the variables of the protocol client
client_vars == <<call, clock>>

vars == <<max_workers, per_topic_limit, queues, workers, sema_value, sema_waiters,
          processor, closed, active_per_topic, active_global, registry,
          pending_by_user, jobs, worker_keys, shutdown_st, resv, freed, invoked,
          cancel_true, call, clock, resolve, render, process>>

\* the variables of the calls of the pure methods
pure_vars == <<resolve, render, process>>

\* the variables of the controller
queue_vars == <<max_workers, per_topic_limit, queues, workers, sema_value,
                sema_waiters, processor, closed, active_per_topic, active_global,
                registry, pending_by_user, jobs, worker_keys, shutdown_st, resv,
                freed, invoked, cancel_true>>

\* Python's None where a timestamp is expected
NoTime == -1
\* Python's None where an exception or a result is expected
NoError == "no error"
NoResult == "no result"
\* prompt ids the engine hands out; NoPrompt before POST /prompt has answered
PromptIds == {"p1", "p2"}
NoPrompt == "no prompt"

\* no submit_and_wait call has been made
NoCall ==
    [pc |-> "idle", start_ts |-> NoTime, t_queued |-> NoTime,
     t_exec_start |-> NoTime, t_exec_done |-> NoTime, done |-> FALSE,
     prompt_id |-> NoPrompt, ws |-> "none", raised |-> NoError,
     result |-> NoResult, posts |-> 0, history_gets |-> 0, abandoned |-> FALSE]

Max(a, b) == IF a >= b THEN a ELSE b

\* no media collection and no prepare_workflow call is modelled
NoResolve == [pc |-> "none"]
NoRender == [pc |-> "none"]
NoProcess == [pc |-> "none"]

\* JobsQueue.__init__
InitQueue ==
    /\ \E cfg \in Configs : /\ max_workers = cfg[1]
                            /\ per_topic_limit = Max(1, cfg[2])
    /\ queues = EmptyDict
    /\ workers = EmptyDict
    /\ sema_value = max_workers
    /\ sema_waiters = <<>>
    /\ processor = FALSE
    /\ closed = FALSE
    /\ active_per_topic = EmptyDict
    /\ active_global = 0
    /\ registry = {}
    /\ pending_by_user = EmptyDict
    /\ jobs = EmptyDict
    /\ worker_keys = <<>>
    /\ shutdown_st = [pc |-> "idle", pos |-> 0, len |-> 0]
    /\ resv = [u \in Users |-> 0]
    /\ freed = EmptyDict
    /\ invoked = EmptyDict
    /\ cancel_true = EmptyDict

\* the controller and the client after construction
Init ==
    /\ InitQueue
    /\ call = NoCall
    /\ clock = 0
    /\ resolve = NoResolve
    /\ render = NoRender
    /\ process = NoProcess

(***************************** pure helpers *******************************)
\* _inc_pending adding two
inc_pending_twice(p, user_id) ==
    IF user_id <= 0 THEN p ELSE Put(p, user_id, Get(p, user_id, 0) + 2)

\* JobsQueue._inc_pending
inc_pending(p, user_id) ==
    IF user_id <= 0 THEN p ELSE Put(p, user_id, Get(p, user_id, 0) + 1)

\* _dec_pending without the branch that removes an entry of at most one
dec_pending_unchecked(p, user_id) ==
    IF user_id <= 0 THEN p
    ELSE Put(p, user_id, Get(p, user_id, 0) - 1)

\* _dec_pending that stores the count it reaches, zero included
dec_pending_keeps_zero(p, user_id) ==
    IF user_id <= 0 THEN p
    ELSE LET cur == Get(p, user_id, 0) IN
         IF cur <= 0 THEN p ELSE Put(p, user_id, cur - 1)

\* JobsQueue._dec_pending
dec_pending(p, user_id) ==
    IF user_id <= 0 THEN p
    ELSE LET cur == Get(p, user_id, 0) IN
         IF cur <= 1 THEN Pop(p, user_id) ELSE Put(p, user_id, cur - 1)

\* JobsQueue.pending_count_by_user
pending_count_by_user(user_id) == Get(pending_by_user, user_id, 0)

\* JobsQueue.get_job: the message id registered, or NoJob
get_job(message_id) == IF message_id \in registry THEN message_id ELSE NoJob

\* `not per_user_limit or per_user_limit <= 0`: the limit is disabled
limit_disabled(per_user_limit) ==
    per_user_limit = NoneLimit \/ per_user_limit = 0 \/ per_user_limit <= 0

\* the GenerateJob the bot builds for a fresh placeholder message: the fields
\* the controller reads.  canceled_by_admin, which cancel_job writes together
\* with canceled and which no code reads, is left out.
GenerateJob(user_id, alias) ==
    [user_id |-> user_id, topic_alias |-> alias, canceled |-> FALSE,
     started |-> FALSE]

\* the message id of the next placeholder message
next_message_id == Cardinality(DOMAIN jobs) + 1

\* a semaphore that is never found locked
sema_never_locked == FALSE

\* asyncio.Semaphore.locked(): no permit can be taken without waiting
sema_locked == sema_value = 0 \/ sema_waiters # <<>>

\* _ensure_workers without its early return
has_workers_never(alias) == FALSE

\* JobsQueue._ensure_workers: the test that the pool of alias exists
has_workers(alias) == alias \in DOMAIN workers /\ workers[alias] # <<>>

\* JobsQueue._ensure_workers: self._queues afterwards
ensure_workers_queues(alias) ==
    IF has_workers(alias) \/ alias \in DOMAIN queues THEN queues
    ELSE Put(queues, alias, <<>>)

\* JobsQueue._ensure_workers: self._workers afterwards
ensure_workers_pool(alias) ==
    IF has_workers(alias) THEN workers
    ELSE Put(workers, alias,
             [i \in 1..per_topic_limit |-> [pc |-> "get", job |-> NoJob]])

\* JobsQueue._ensure_workers: key order of self._workers afterwards
ensure_workers_keys(alias) ==
    IF alias \in DOMAIN workers THEN worker_keys ELSE Append(worker_keys, alias)

(******************************* the workers *******************************)
\* _worker_loop, lines 129-152, from the moment the permit is held: sv and sw
\* are the semaphore's value and waiters after the acquisition.  With no
\* processor set the job is dropped in the same step.
start_job(alias, i, job, sv, sw) ==
    LET uid == jobs[job].user_id IN
    /\ pending_by_user' = IF uid # 0 THEN dec_pending(pending_by_user, uid)
                          ELSE pending_by_user
    /\ freed' = IF uid # 0 THEN [freed EXCEPT ![job] = @ + 1] ELSE freed
    /\ jobs' = [jobs EXCEPT ![job].started = TRUE]
    /\ sema_waiters' = sw
    /\ IF processor
       THEN /\ active_global' = active_global + 1
            /\ active_per_topic' =
                   Put(active_per_topic, alias, Get(active_per_topic, alias, 0) + 1)
            /\ invoked' = [invoked EXCEPT ![job] = @ + 1]
            /\ workers' = [workers EXCEPT ![alias][i] = [pc |-> "proc", job |-> job]]
            /\ sema_value' = sv
            /\ registry' = registry
       ELSE /\ active_global' = Max(0, (active_global + 1) - 1)
            /\ active_per_topic' =
                   Put(active_per_topic, alias,
                       Max(0, (Get(active_per_topic, alias, 0) + 1) - 1))
            /\ invoked' = invoked
            /\ workers' = [workers EXCEPT ![alias][i] = [pc |-> "get", job |-> NoJob]]
            /\ sema_value' = sv + 1
            /\ registry' = registry \ {job}

\* _worker_loop, lines 118-129: q.get() returns an item
worker_get(alias, i) ==
    /\ UNCHANGED <<client_vars, pure_vars>>
    /\ alias \in DOMAIN workers
    /\ i \in DOMAIN workers[alias]
    /\ workers[alias][i].pc = "get"
    /\ alias \in DOMAIN queues
    /\ queues[alias] # <<>>
    /\ LET job == Head(queues[alias]) IN
       /\ queues' = [queues EXCEPT ![alias] = Tail(@)]
       /\ UNCHANGED <<max_workers, per_topic_limit, processor, closed, worker_keys,
                      shutdown_st, resv, cancel_true>>
       /\ IF job = NoJob \/ closed
          THEN /\ workers' = [workers EXCEPT ![alias][i] = [pc |-> "done", job |-> NoJob]]
               /\ UNCHANGED <<sema_value, sema_waiters, active_per_topic, active_global,
                              registry, pending_by_user, jobs, freed, invoked>>
          ELSE IF jobs[job].canceled
          THEN /\ registry' = registry \ {job}
               /\ UNCHANGED <<workers, sema_value, sema_waiters, active_per_topic,
                              active_global, pending_by_user, jobs, freed, invoked>>
          ELSE IF sema_locked
          THEN /\ workers' = [workers EXCEPT ![alias][i] = [pc |-> "sema", job |-> job]]
               /\ sema_waiters' = Append(sema_waiters, <<alias, i>>)
               /\ UNCHANGED <<sema_value, active_per_topic, active_global, registry,
                              pending_by_user, jobs, freed, invoked>>
          ELSE start_job(alias, i, job, sema_value - 1, sema_waiters)

\* _worker_loop, line 129: the worker blocked on the semaphore gets the permit
worker_acquire(alias, i) ==
    /\ UNCHANGED <<client_vars, pure_vars>>
    /\ alias \in DOMAIN workers
    /\ i \in DOMAIN workers[alias]
    /\ workers[alias][i].pc = "sema"
    /\ sema_value > 0
    /\ sema_waiters # <<>>
    /\ Head(sema_waiters) = <<alias, i>>
    /\ start_job(alias, i, workers[alias][i].job, sema_value - 1, Tail(sema_waiters))
    /\ UNCHANGED <<max_workers, per_topic_limit, queues, processor, closed, worker_keys,
                   shutdown_st, resv, cancel_true>>

\* how a processor call ends: it returns, it raises an Exception, or it ends
\* with a BaseException that is not an Exception (asyncio.CancelledError)
ProcessorOutcomes == {"returned", "raised", "cancelled"}

\* _worker_loop, lines 144-154: the processor call ends with outcome.  An
\* Exception is caught and logged (lines 145-147); after a return or an
\* Exception the finally block, the semaphore's exit, task_done and the
\* registry pop run and the worker is back at q.get().  A CancelledError is
\* not caught by `except Exception`: the finally block and the semaphore's
\* exit run, lines 152-154 are skipped and the worker task ends cancelled.
worker_after(alias, i, outcome) ==
    /\ UNCHANGED <<client_vars, pure_vars>>
    /\ alias \in DOMAIN workers
    /\ i \in DOMAIN workers[alias]
    /\ workers[alias][i].pc = "proc"
    /\ active_global' = Max(0, active_global - 1)
    /\ active_per_topic' =
           Put(active_per_topic, alias, Max(0, Get(active_per_topic, alias, 1) - 1))
    /\ sema_value' = sema_value + 1
    /\ IF outcome = "cancelled"
       THEN /\ registry' = registry
            /\ workers' = [workers EXCEPT ![alias][i] =
                                        [pc |-> "cancelled", job |-> NoJob]]
       ELSE /\ registry' = registry \ {workers[alias][i].job}
            /\ workers' = [workers EXCEPT ![alias][i] = [pc |-> "get", job |-> NoJob]]
    /\ UNCHANGED <<max_workers, per_topic_limit, queues, sema_waiters, processor, closed,
                   pending_by_user, jobs, worker_keys, shutdown_st, resv, freed,
                   invoked, cancel_true>>

\* _worker_loop, lines 144-154: the processor call returns, raises or is
\* cancelled
worker_finish(alias, i) ==
    \E outcome \in ProcessorOutcomes : worker_after(alias, i, outcome)

(**************************** the public methods ***************************)
\* A method's return value is the operator <method>_result, evaluated in the
\* state in which the method is called.

\* JobsQueue.set_processor
set_processor ==
    /\ UNCHANGED <<client_vars, pure_vars>>
    /\ processor' = TRUE
    /\ UNCHANGED <<max_workers, per_topic_limit, queues, workers, sema_value,
                   sema_waiters, closed, active_per_topic, active_global, registry,
                   pending_by_user, jobs, worker_keys, shutdown_st, resv, freed,
                   invoked,
                   cancel_true>>

\* an enqueue that is never refused
rejected_never == FALSE

\* `self._closed or self._processor is None`: the enqueue methods refuse
rejected == closed \/ ~processor

\* a put that places the item at the front of the queue
put_front(q, item) == <<item>> \o q

\* asyncio.Queue.put on an unbounded queue: the item goes to the back
put(q, item) == Append(q, item)

\* the part the three enqueue methods share: _ensure_workers, the registration,
\* the increment when count holds, and the put
accept(alias, user_id, count) ==
    LET id == next_message_id IN
    /\ workers' = ensure_workers_pool(alias)
    /\ worker_keys' = ensure_workers_keys(alias)
    /\ registry' = registry \cup {id}
    /\ jobs' = Put(jobs, id, GenerateJob(user_id, alias))
    /\ freed' = Put(freed, id, 0)
    /\ invoked' = Put(invoked, id, 0)
    /\ cancel_true' = Put(cancel_true, id, 0)
    /\ pending_by_user' = IF user_id # 0 /\ count
                          THEN inc_pending(pending_by_user, user_id)
                          ELSE pending_by_user
    /\ queues' = [a \in DOMAIN ensure_workers_queues(alias) |->
                     IF a = alias THEN put(ensure_workers_queues(alias)[a], id)
                     ELSE ensure_workers_queues(alias)[a]]

\* JobsQueue.enqueue
enqueue(alias, user_id) ==
    /\ UNCHANGED <<client_vars, pure_vars>>
    /\ UNCHANGED <<max_workers, per_topic_limit, sema_value, sema_waiters, processor,
                   closed, active_per_topic, active_global, shutdown_st, resv>>
    /\ IF rejected
       THEN UNCHANGED <<queues, workers, registry, pending_by_user, jobs,
                        worker_keys, freed, invoked,
                   cancel_true>>
       ELSE /\ accept(alias, user_id, TRUE)

\* JobsQueue.enqueue_limited
enqueue_limited(alias, user_id, per_user_limit) ==
    /\ UNCHANGED <<client_vars, pure_vars>>
    /\ UNCHANGED <<max_workers, per_topic_limit, sema_value, sema_waiters, processor,
                   closed, active_per_topic, active_global, shutdown_st, resv>>
    /\ IF rejected
       THEN UNCHANGED <<queues, workers, registry, pending_by_user, jobs,
                        worker_keys, freed, invoked,
                   cancel_true>>
       ELSE IF /\ ~limit_disabled(per_user_limit)
               /\ user_id # 0
               /\ Get(pending_by_user, user_id, 0) >= per_user_limit
       THEN /\ queues' = ensure_workers_queues(alias)
            /\ workers' = ensure_workers_pool(alias)
            /\ worker_keys' = ensure_workers_keys(alias)
            /\ UNCHANGED <<registry, pending_by_user, jobs, freed, invoked,
                   cancel_true>>
       ELSE /\ accept(alias, user_id, TRUE)

\* JobsQueue.enqueue_reserved; reserved = TRUE is passed by a caller that holds
\* a reservation for user_id (bot.py, _send_and_enqueue)
enqueue_reserved(alias, user_id, reserved) ==
    /\ UNCHANGED <<client_vars, pure_vars>>
    /\ reserved => (user_id > 0 /\ resv[user_id] > 0)
    /\ UNCHANGED <<max_workers, per_topic_limit, sema_value, sema_waiters, processor,
                   closed, active_per_topic, active_global, shutdown_st>>
    /\ IF rejected
       THEN UNCHANGED <<queues, workers, registry, pending_by_user, jobs,
                        worker_keys, freed, invoked, resv,
                   cancel_true>>
       ELSE /\ accept(alias, user_id, ~reserved)
            /\ resv' = IF reserved THEN [resv EXCEPT ![user_id] = @ - 1] ELSE resv

\* can_enqueue allowing at the limit
can_enqueue_result_lax(user_id, per_user_limit) ==
    IF user_id <= 0 \/ limit_disabled(per_user_limit) THEN TRUE
    ELSE Get(pending_by_user, user_id, 0) <= per_user_limit

\* JobsQueue.can_enqueue: the value returned
can_enqueue_result(user_id, per_user_limit) ==
    IF user_id <= 0 \/ limit_disabled(per_user_limit) THEN TRUE
    ELSE Get(pending_by_user, user_id, 0) < per_user_limit

\* JobsQueue.can_enqueue
can_enqueue(user_id, per_user_limit) ==
    /\ UNCHANGED <<client_vars, pure_vars>>
    /\ UNCHANGED <<max_workers, per_topic_limit, queues, workers, sema_value,
                   sema_waiters, processor, closed, active_per_topic, active_global,
                   registry, pending_by_user, jobs, worker_keys, shutdown_st, resv,
                   freed, invoked,
                   cancel_true>>

\* reserve_user_slot refusing only above the limit
reserve_user_slot_result_lax(user_id, per_user_limit) ==
    IF user_id <= 0 \/ limit_disabled(per_user_limit) THEN FALSE
    ELSE ~(Get(pending_by_user, user_id, 0) > per_user_limit)

\* JobsQueue.reserve_user_slot: the value returned
reserve_user_slot_result(user_id, per_user_limit) ==
    IF user_id <= 0 \/ limit_disabled(per_user_limit) THEN FALSE
    ELSE ~(Get(pending_by_user, user_id, 0) >= per_user_limit)

\* the reservations all callers hold
resv_total == LET RECURSIVE Sum(_)
                  Sum(S) == IF S = {} THEN 0
                            ELSE LET u == CHOOSE x \in S : TRUE
                                 IN resv[u] + Sum(S \ {u})
              IN Sum(Users)

\* JobsQueue.reserve_user_slot
reserve_user_slot(user_id, per_user_limit) ==
    /\ UNCHANGED <<client_vars, pure_vars>>
    /\ UNCHANGED <<max_workers, per_topic_limit, queues, workers, sema_value,
                   sema_waiters, processor, closed, active_per_topic, active_global,
                   registry, jobs, worker_keys, shutdown_st, freed, invoked,
                   cancel_true>>
    /\ LET ok == reserve_user_slot_result(user_id, per_user_limit) IN
       /\ pending_by_user' = IF ok THEN inc_pending(pending_by_user, user_id)
                             ELSE pending_by_user
       /\ resv' = IF ok THEN [resv EXCEPT ![user_id] = @ + 1] ELSE resv

\* JobsQueue.release_user_slot; for user_id <= 0 it returns at once. A caller
\* that holds a reservation for user_id gives it up with the call.
release_user_slot(user_id) ==
    /\ UNCHANGED <<client_vars, pure_vars>>
    /\ UNCHANGED <<max_workers, per_topic_limit, queues, workers, sema_value,
                   sema_waiters, processor, closed, active_per_topic, active_global,
                   registry, jobs, worker_keys, shutdown_st, freed, invoked,
                   cancel_true>>
    /\ pending_by_user' = IF user_id <= 0 THEN pending_by_user
                          ELSE dec_pending(pending_by_user, user_id)
    /\ resv' = IF user_id > 0 /\ resv[user_id] > 0
               THEN [resv EXCEPT ![user_id] = @ - 1] ELSE resv

\* will_queue looking at the topic's queue only
will_queue_result_queue_only(alias) ==
    Len(ensure_workers_queues(alias)[alias]) > 0

\* JobsQueue.will_queue: the value returned, read after _ensure_workers
will_queue_result(alias) ==
    \/ Len(ensure_workers_queues(alias)[alias]) > 0
    \/ Get(active_per_topic, alias, 0) >= per_topic_limit
    \/ Max(0, max_workers - active_global) <= 0

\* JobsQueue.will_queue
will_queue(alias) ==
    /\ UNCHANGED <<client_vars, pure_vars>>
    /\ queues' = ensure_workers_queues(alias)
    /\ workers' = ensure_workers_pool(alias)
    /\ worker_keys' = ensure_workers_keys(alias)
    /\ UNCHANGED <<max_workers, per_topic_limit, sema_value, sema_waiters, processor,
                   closed, active_per_topic, active_global, registry, pending_by_user,
                   jobs, shutdown_st, resv, freed, invoked,
                   cancel_true>>

\* cancel_job without the test of the canceled flag
cancel_job_result_twice(message_id) ==
    IF get_job(message_id) = NoJob THEN FALSE
    ELSE IF jobs[message_id].started THEN FALSE
    ELSE TRUE

\* cancel_job without the test of the started flag
cancel_job_result_late(message_id) ==
    IF get_job(message_id) = NoJob THEN FALSE
    ELSE IF jobs[message_id].canceled THEN FALSE
    ELSE TRUE

\* JobsQueue.cancel_job: the value returned
cancel_job_result(message_id) ==
    IF get_job(message_id) = NoJob THEN FALSE
    ELSE IF jobs[message_id].started THEN FALSE
    ELSE IF jobs[message_id].canceled THEN FALSE
    ELSE TRUE

\* JobsQueue.cancel_job
cancel_job(message_id) ==
    /\ UNCHANGED <<client_vars, pure_vars>>
    /\ IF cancel_job_result(message_id)
       THEN /\ jobs' = [jobs EXCEPT ![message_id].canceled = TRUE]
            /\ pending_by_user' =
                   IF jobs[message_id].user_id # 0
                   THEN dec_pending(pending_by_user, jobs[message_id].user_id)
                   ELSE pending_by_user
            /\ freed' = IF jobs[message_id].user_id # 0
                        THEN [freed EXCEPT ![message_id] = @ + 1] ELSE freed
            /\ cancel_true' = [cancel_true EXCEPT ![message_id] = @ + 1]
       ELSE UNCHANGED <<jobs, pending_by_user, freed, cancel_true>>
    /\ UNCHANGED <<max_workers, per_topic_limit, queues, workers, sema_value,
                   sema_waiters, processor, closed, active_per_topic, active_global,
                   registry, worker_keys, shutdown_st, resv, invoked>>

(******************************** shutdown *********************************)
\* every task of the pool of alias has returned
pool_done(alias) == \A i \in DOMAIN workers[alias] : workers[alias][i].pc = "done"

\* shutdown, lines 72-74: awaiting the tasks of the pool of alias in their
\* order reaches a task that ended cancelled before any task that still
\* runs; `await t` then raises CancelledError, which `except Exception` lets
\* through
pool_cancelled(alias) ==
    \E i \in DOMAIN workers[alias] :
        /\ workers[alias][i].pc = "cancelled"
        /\ \A k \in 1..(i - 1) : workers[alias][k].pc = "done"

\* shutdown, lines 71-76: the first position from p on whose pool has a task
\* that has not returned (awaiting a task that is done does not suspend)
RECURSIVE await_from(_)
await_from(p) ==
    IF p > Len(worker_keys) THEN p
    ELSE IF pool_done(worker_keys[p]) THEN await_from(p + 1)
    ELSE p

\* shutdown, lines 65-69: the poison pills
poison_pills(alias) ==
    LET n == IF Get(workers, alias, <<>>) # <<>> THEN Len(workers[alias]) ELSE 1
    IN [k \in 1..n |-> NoJob]

\* shutdown, lines 77-80
shutdown_clear ==
    /\ queues' = EmptyDict
    /\ workers' = EmptyDict
    /\ worker_keys' = <<>>
    /\ registry' = {}
    /\ pending_by_user' = EmptyDict

\* JobsQueue.shutdown, lines 63-74: up to the first task that has to be
\* awaited; a task that ended cancelled makes the call raise CancelledError
\* after the pills are put
shutdown_begin ==
    /\ UNCHANGED <<client_vars, pure_vars>>
    /\ shutdown_st.pc = "idle"
    /\ closed' = TRUE
    /\ IF await_from(1) > Len(worker_keys)
       THEN /\ shutdown_clear
            /\ shutdown_st' = [pc |-> "done", pos |-> 0, len |-> 0]
       ELSE /\ queues' = [a \in DOMAIN queues |-> queues[a] \o poison_pills(a)]
            /\ shutdown_st' =
                   [pc |-> IF pool_cancelled(worker_keys[await_from(1)])
                           THEN "cancelled" ELSE "waiting",
                    pos |-> await_from(1), len |-> Len(worker_keys)]
            /\ UNCHANGED <<workers, worker_keys, registry, pending_by_user>>
    /\ UNCHANGED <<max_workers, per_topic_limit, sema_value, sema_waiters, processor,
                   active_per_topic, active_global, jobs, resv, freed, invoked,
                   cancel_true>>

\* JobsQueue.shutdown, lines 71-80: the awaited task has ended.  A task that
\* ended cancelled makes `await t` raise CancelledError; the dict iterator
\* raises RuntimeError when self._workers grew in the meantime.
shutdown_resume ==
    /\ UNCHANGED <<client_vars, pure_vars>>
    /\ shutdown_st.pc = "waiting"
    /\ pool_done(worker_keys[shutdown_st.pos]) \/ pool_cancelled(worker_keys[shutdown_st.pos])
    /\ IF pool_cancelled(worker_keys[shutdown_st.pos])
       THEN /\ shutdown_st' = [shutdown_st EXCEPT !.pc = "cancelled"]
            /\ UNCHANGED <<queues, workers, worker_keys, registry, pending_by_user>>
       ELSE IF Len(worker_keys) # shutdown_st.len
       THEN /\ shutdown_st' = [shutdown_st EXCEPT !.pc = "failed"]
            /\ UNCHANGED <<queues, workers, worker_keys, registry, pending_by_user>>
       ELSE IF await_from(shutdown_st.pos) > Len(worker_keys)
       THEN /\ shutdown_clear
            /\ shutdown_st' = [pc |-> "done", pos |-> 0, len |-> 0]
       ELSE /\ shutdown_st' =
                   [shutdown_st EXCEPT
                       !.pc = IF pool_cancelled(worker_keys[await_from(shutdown_st.pos)])
                              THEN "cancelled" ELSE "waiting",
                       !.pos = await_from(shutdown_st.pos)]
            /\ UNCHANGED <<queues, workers, worker_keys, registry, pending_by_user>>
    /\ UNCHANGED <<max_workers, per_topic_limit, sema_value, sema_waiters, processor,
                   closed, active_per_topic, active_global, jobs, resv, freed, invoked,
                   cancel_true>>

(***************************** the state machine ***************************)
\* the controller in service: the callers' calls and the workers' steps
Next ==
    \/ set_processor
    \/ \E alias \in Aliases, user_id \in Users :
           next_message_id <= MaxJobs /\ enqueue(alias, user_id)
    \/ \E alias \in Aliases, user_id \in Users, per_user_limit \in Limits :
           next_message_id <= MaxJobs /\ enqueue_limited(alias, user_id, per_user_limit)
    \/ \E alias \in Aliases, user_id \in Users, reserved \in BOOLEAN :
           next_message_id <= MaxJobs /\ enqueue_reserved(alias, user_id, reserved)
    \/ \E user_id \in Users, per_user_limit \in Limits :
           can_enqueue(user_id, per_user_limit)
    \/ \E user_id \in Users, per_user_limit \in Limits :
           resv_total < MaxResv /\ reserve_user_slot(user_id, per_user_limit)
    \/ \E user_id \in Users :
           (user_id <= 0 \/ resv[user_id] > 0) /\ release_user_slot(user_id)
    \/ \E alias \in Aliases : will_queue(alias)
    \/ \E message_id \in JobIds : cancel_job(message_id)
    \/ \E alias \in Aliases, i \in 1..per_topic_limit : worker_get(alias, i)
    \/ \E alias \in Aliases, i \in 1..per_topic_limit : worker_acquire(alias, i)
    \/ \E alias \in Aliases, i \in 1..per_topic_limit : worker_finish(alias, i)

Spec == Init /\ [][Next]_vars

\* the largest per_topic_limit of Configs
MaxPerTopic == 2

\* the event loop runs every worker task that can run: q.get() returns when
\* the queue holds an item, the semaphore wakes its first waiter when a permit
\* is free, and every processor call returns or raises
WorkersRun ==
    \A alias \in Aliases, i \in 1..MaxPerTopic :
        /\ WF_vars(worker_get(alias, i))
        /\ WF_vars(worker_acquire(alias, i))
        /\ WF_vars(worker_finish(alias, i))

\* the controller in service with workers that run
SpecLive == Spec /\ WorkersRun

\* the controller in service and during and after shutdown()
NextShutdown ==
    \/ Next
    \/ shutdown_begin
    \/ shutdown_resume

SpecShutdown == Init /\ [][NextShutdown]_vars

\* the controller during and after shutdown() with workers that run; the
\* shutdown coroutine resumes when the task it awaits has returned
SpecShutdownLive == SpecShutdown /\ WorkersRun /\ WF_vars(shutdown_resume)

\* the controller in service with callers that also call release_user_slot
\* when they hold no reservation ("safe to call even if nothing was reserved")
NextRelease ==
    \/ Next
    \/ \E user_id \in Users : release_user_slot(user_id)

\* release_user_slot reads and writes the counters only: the controller is
\* taken with one worker per topic
InitRelease == Init /\ per_topic_limit = 1

SpecRelease == InitRelease /\ [][NextRelease]_vars

\* requesters with an id the controller counts (user_id > 0)
Identified == {u \in Users : u > 0}

\* the controller in service when every admission of an identified requester
\* is reserve_user_slot followed by will_queue and enqueue_reserved(reserved =
\* True), or enqueue_limited, always with the limit AdmitLimit (bot.py,
\* _send_and_enqueue); the job of a requester that is not identified
\* (user_id = 0) is enqueued with reserved = False (lines 290, 334-335)
NextLimited ==
    \/ set_processor
    \/ \E user_id \in Identified :
           resv_total < MaxResv /\ reserve_user_slot(user_id, AdmitLimit)
    \/ \E alias \in Aliases, user_id \in Identified :
           next_message_id <= MaxJobsLimited /\ enqueue_reserved(alias, user_id, TRUE)
    \/ \E alias \in Aliases, user_id \in Users \ Identified :
           /\ next_message_id <= MaxJobsLimited
           /\ Cardinality({j \in DOMAIN jobs : jobs[j].user_id = user_id})
                  < MaxAnonymous
           /\ enqueue_reserved(alias, user_id, FALSE)
    \/ \E alias \in Aliases, user_id \in Identified :
           next_message_id <= MaxJobsLimited
           /\ enqueue_limited(alias, user_id, AdmitLimit)
    \/ \E user_id \in Identified :
           resv[user_id] > 0 /\ release_user_slot(user_id)
    \/ \E user_id \in Identified : can_enqueue(user_id, AdmitLimit)
    \/ \E alias \in Aliases : will_queue(alias)
    \/ \E message_id \in 1..MaxJobsLimited : cancel_job(message_id)
    \/ \E alias \in Aliases, i \in 1..per_topic_limit : worker_get(alias, i)
    \/ \E alias \in Aliases, i \in 1..per_topic_limit : worker_acquire(alias, i)
    \/ \E alias \in Aliases, i \in 1..per_topic_limit : worker_finish(alias, i)

\* the backlog of a requester grows while its jobs wait for a permit: the
\* controller is taken with one global permit
InitLimited == Init /\ max_workers = 1

SpecLimited == InitLimited /\ [][NextLimited]_vars

(**************************** the protocol client **************************)
\* the clock values of a run, and self.run_timeout in the same unit
MaxClock == 4
RunTimeout == 2

\* the node field of an executing event: NoNode stands for JSON null
NoNode == "null"
Nodes == {NoNode, "3"}
\* the exception_message of an execution_error event: NoMessage stands for a
\* missing field or JSON null
NoMessage == "no message"
Messages == {"OOM", "", NoMessage}

\* what ws.recv() gives: it times out, the connection is lost, or a frame
\* arrives: binary, text that is no JSON, JSON that is no object, or an event
Frames ==
    [kind : {"recv_timeout", "connection_lost", "binary", "not_json", "not_object"},
     prompt_id : {NoPrompt}, node : {NoNode}, message : {NoMessage}]
    \cup [kind : {"executing"}, prompt_id : PromptIds, node : Nodes,
          message : {NoMessage}]
    \cup [kind : {"execution_error"}, prompt_id : PromptIds, node : {NoNode},
          message : Messages]
    \cup [kind : {"other_event"}, prompt_id : PromptIds, node : {NoNode},
          message : {NoMessage}]

\* a variant of error_message that always reports the fixed text
error_message_fixed(message) == "ComfyUI execution error"

\* `d.get("exception_message") or "ComfyUI execution error"`, line 284
error_message(message) ==
    IF message = NoMessage \/ message = "" THEN "ComfyUI execution error"
    ELSE message

\* a variant of raise that leaves the channel as it is
raise_unclosed(err) ==
    call' = [call EXCEPT !.pc = "failed", !.raised = err]

\* an exception leaves submit_and_wait through `finally: ws.close()`
raise(err) ==
    call' = [call EXCEPT !.pc = "failed", !.raised = err, !.ws = "closed"]

\* a variant of timings that takes the differences as they are
timings_unclamped(start_ts, t_queued, t_exec_start, t_exec_done) ==
    IF t_exec_start = NoTime
    THEN [comfy_queue_s |-> t_exec_done - t_queued, comfy_exec_s |-> 0]
    ELSE [comfy_queue_s |-> t_exec_start - t_queued,
          comfy_exec_s |-> t_exec_done - t_exec_start]

\* lines 438-455: the timings of the result. The call reaches them with
\* t_exec_done set, so `t_exec_done or time.time()` is t_exec_done.
timings(start_ts, t_queued, t_exec_start, t_exec_done) ==
    LET queued == IF t_queued = NoTime THEN start_ts ELSE t_queued
    IN  IF t_exec_start = NoTime
        THEN [comfy_queue_s |-> Max(0, t_exec_done - queued), comfy_exec_s |-> 0]
        ELSE [comfy_queue_s |-> Max(0, t_exec_start - queued),
              comfy_exec_s |-> Max(0, t_exec_done - t_exec_start)]

\* time passes
tick ==
    /\ UNCHANGED <<queue_vars, pure_vars>>
    /\ clock < MaxClock
    /\ clock' = clock + 1
    /\ call' = call

\* time.time() is the wall clock: it is set back
clock_back ==
    /\ UNCHANGED <<queue_vars, pure_vars>>
    /\ clock > 0
    /\ clock' = clock - 1
    /\ call' = call

\* the coroutine that awaits the call in the executor (bot.py line 843) is
\* cancelled: the thread that runs submit_and_wait goes on
abandon ==
    /\ UNCHANGED <<queue_vars, pure_vars>>
    /\ call.pc \notin {"idle", "returned", "failed"}
    /\ ~call.abandoned
    /\ call' = [call EXCEPT !.abandoned = TRUE]
    /\ clock' = clock

\* submit_and_wait is called: lines 215-225
submit_and_wait ==
    /\ UNCHANGED <<queue_vars, pure_vars>>
    /\ call.pc = "idle"
    /\ call' = [call EXCEPT !.pc = "connect", !.start_ts = clock, !.ws = "new"]
    /\ clock' = clock

\* a variant of ws_connect that goes on to the POST although the connection
\* failed
ws_connect_unchecked(ok) ==
    /\ UNCHANGED <<queue_vars, pure_vars>>
    /\ call.pc = "connect"
    /\ call' = [call EXCEPT !.pc = "post", !.ws = IF ok THEN "open" ELSE "new"]
    /\ clock' = clock

\* ws.connect, line 231: the channel opens, or the call raises
ws_connect(ok) ==
    /\ UNCHANGED <<queue_vars, pure_vars>>
    /\ call.pc = "connect"
    /\ IF ok THEN call' = [call EXCEPT !.pc = "post", !.ws = "open"]
       ELSE raise("connect failed")
    /\ clock' = clock

\* POST /prompt, lines 234-237: the engine answers with a prompt id, or the
\* call raises
post_prompt(ok, prompt_id) ==
    /\ UNCHANGED <<queue_vars, pure_vars>>
    /\ call.pc = "post"
    /\ IF ok
       THEN call' = [call EXCEPT !.pc = "loop", !.prompt_id = prompt_id,
                                 !.t_queued = clock, !.posts = @ + 1]
       ELSE call' = [call EXCEPT !.pc = "failed", !.raised = "post failed",
                                 !.ws = "closed", !.posts = @ + 1]
    /\ clock' = clock

\* a loop head without the deadline test
loop_no_deadline ==
    /\ UNCHANGED <<queue_vars, pure_vars>>
    /\ call.pc = "loop"
    /\ call' = [call EXCEPT !.pc = "recv"]
    /\ clock' = clock

\* the head of the wait loop, lines 245-247: the deadline test
loop_deadline ==
    /\ UNCHANGED <<queue_vars, pure_vars>>
    /\ call.pc = "loop"
    /\ IF clock - call.start_ts > RunTimeout
       THEN raise("Generation timeout exceeded")
       ELSE call' = [call EXCEPT !.pc = "recv"]
    /\ clock' = clock

\* ws.recv() returns or raises, lines 248-286
ws_recv(frame) ==
    /\ UNCHANGED <<queue_vars, pure_vars>>
    /\ call.pc = "recv"
    /\ clock' = clock
    /\ IF frame.kind = "connection_lost" THEN raise("connection lost")
       ELSE IF frame.kind \in {"recv_timeout", "binary", "not_json"}
       THEN call' = [call EXCEPT !.pc = "loop"]
       ELSE IF frame.kind = "not_object" THEN raise("AttributeError")
       ELSE IF frame.kind = "executing"
       THEN IF frame.prompt_id # call.prompt_id
            THEN call' = [call EXCEPT !.pc = "loop"]
            ELSE IF frame.node # NoNode
            THEN call' = [call EXCEPT !.pc = "loop",
                             !.t_exec_start = IF @ = NoTime THEN clock ELSE @]
            ELSE call' = [call EXCEPT !.pc = "history", !.t_exec_done = clock,
                                      !.done = TRUE]
       ELSE IF frame.kind = "execution_error"
       THEN raise(error_message(frame.message))
       ELSE call' = [call EXCEPT !.pc = "loop"]

\* lines 288-460: the done test, GET /history, the result and ws.close()
get_history(ok) ==
    /\ UNCHANGED <<queue_vars, pure_vars>>
    /\ call.pc = "history"
    /\ clock' = clock
    /\ IF ~call.done THEN raise("Unknown state: not completed")
       ELSE IF ok
       THEN call' = [call EXCEPT
                        !.pc = "returned", !.ws = "closed", !.history_gets = @ + 1,
                        !.result = timings(call.start_ts, call.t_queued,
                                           call.t_exec_start, call.t_exec_done)]
       ELSE call' = [call EXCEPT !.pc = "failed", !.raised = "history failed",
                                 !.ws = "closed", !.history_gets = @ + 1]

\* one submit_and_wait call against an engine that sends any frames
NextClient ==
    \/ tick
    \/ clock_back
    \/ abandon
    \/ submit_and_wait
    \/ \E ok \in BOOLEAN : ws_connect(ok)
    \/ \E ok \in BOOLEAN, prompt_id \in PromptIds : post_prompt(ok, prompt_id)
    \/ loop_deadline
    \/ \E frame \in Frames : ws_recv(frame)
    \/ \E ok \in BOOLEAN : get_history(ok)

SpecClient == Init /\ [][NextClient]_vars

\* one submit_and_wait call when the clock only advances; the call is made
\* early enough for the clock of the model to pass its deadline
NextClientLive ==
    \/ tick
    \/ abandon
    \/ clock + RunTimeout < MaxClock /\ submit_and_wait
    \/ \E ok \in BOOLEAN : ws_connect(ok)
    \/ \E ok \in BOOLEAN, prompt_id \in PromptIds : post_prompt(ok, prompt_id)
    \/ loop_deadline
    \/ \E frame \in Frames : ws_recv(frame)
    \/ \E ok \in BOOLEAN : get_history(ok)

\* time passes, and the thread that runs the call is scheduled: connect, the
\* HTTP requests and recv each return or raise within their timeout
\* (ws.settimeout, line 221; urlopen(timeout=), lines 49 and 54), with
\* whatever the engine chooses to send
SpecClientLive ==
    /\ Init
    /\ [][NextClientLive]_vars
    /\ WF_vars(tick)
    /\ WF_vars(\E ok \in BOOLEAN : ws_connect(ok))
    /\ WF_vars(\E ok \in BOOLEAN, prompt_id \in PromptIds : post_prompt(ok, prompt_id))
    /\ WF_vars(loop_deadline)
    /\ WF_vars(\E frame \in Frames : ws_recv(frame))
    /\ WF_vars(\E ok \in BOOLEAN : get_history(ok))

(*************************** the media collection *************************)
\* files listed under the images key of one history node
MaxFiles == 1

\* the node ids of the history outputs, in the order outputs.items() gives them
OutputOrder == <<"9", "10">>
OutputNodes == {OutputOrder[k] : k \in 1..Len(OutputOrder)}
\* class_type of the nodes of the submitted workflow
ClassTypes == {"SaveImage", "SaveVideo", "SaveAudio", "PreviewImage"}
Workflows == [OutputNodes -> ClassTypes]

\* the output keys the code reads, in the order of the fallback scan
OutputKeys == <<"videos", "images", "audio", "audios">>
\* a key that is not in node_out
Absent == -1
\* node_out: the animated flag and, per key, the number of files listed. A
\* file {filename, subfolder, type} is identified by its node, key and index.
NodeOuts ==
    [animated : BOOLEAN,
     videos : {Absent} \cup (0..1),
     images : {Absent} \cup (0..MaxFiles),
     audio : {Absent, 1},
     audios : {Absent, 1}]
\* entry["outputs"]: node id -> node_out
Outputs ==
    UNION {[present -> NodeOuts] : present \in SUBSET OutputNodes}

\* the files listed under one key of one node, as MediaURL objects of one kind:
\* mime names the _guess_*_mime helper that was applied to the filename
MediaURLs(node_id, key, count, kind) ==
    [i \in 1..Max(count, 0) |->
        [node |-> node_id, key |-> key, idx |-> i, kind |-> kind, mime |-> kind]]

\* the concatenation of per_node[node_id] over the nodes of outputs, in order
RECURSIVE over_nodes(_, _, _)
over_nodes(outputs, per_node, k) ==
    IF k > Len(OutputOrder) THEN <<>>
    ELSE (IF OutputOrder[k] \in DOMAIN outputs THEN per_node[OutputOrder[k]]
          ELSE <<>>) \o over_nodes(outputs, per_node, k + 1)

\* lines 302-304
saveimage_nodes(workflow) == {nid \in DOMAIN workflow : workflow[nid] = "SaveImage"}
savevideo_nodes(workflow) == {nid \in DOMAIN workflow : workflow[nid] = "SaveVideo"}
saveaudio_nodes(workflow) == {nid \in DOMAIN workflow : workflow[nid] = "SaveAudio"}

\* a variant of is_video_node that looks at the animated flag only
is_video_node_flag_only(workflow, outputs, node_id) == outputs[node_id].animated

\* line 361
is_video_node(workflow, outputs, node_id) ==
    node_id \in savevideo_nodes(workflow) \/ outputs[node_id].animated

\* lines 357-374: the videos pass
videos_pass(workflow, outputs) ==
    over_nodes(outputs,
        [node_id \in DOMAIN outputs |->
            LET node_out == outputs[node_id]
                files_key == IF node_out.videos # Absent THEN "videos"
                             ELSE IF node_out.images # Absent THEN "images"
                             ELSE "none"
            IN  IF ~is_video_node(workflow, outputs, node_id) \/ files_key = "none"
                THEN <<>>
                ELSE MediaURLs(node_id, files_key, node_out[files_key], "video")],
        1)

\* lines 376-391: the images pass
images_pass(workflow, outputs) ==
    over_nodes(outputs,
        [node_id \in DOMAIN outputs |->
            LET node_out == outputs[node_id]
            IN  IF \/ is_video_node(workflow, outputs, node_id)
                   \/ node_out.images = Absent
                   \/ /\ saveimage_nodes(workflow) # {}
                      /\ node_id \notin saveimage_nodes(workflow)
                THEN <<>>
                ELSE MediaURLs(node_id, "images", node_out.images, "image")],
        1)

\* lines 393-410: the audio pass; saveaudio_nodes decides nothing in it
audio_pass(workflow, outputs) ==
    over_nodes(outputs,
        [node_id \in DOMAIN outputs |->
            LET node_out == outputs[node_id]
                audio_key == IF node_out.audio # Absent THEN "audio"
                             ELSE IF node_out.audios # Absent THEN "audios"
                             ELSE "none"
            IN  IF audio_key = "none" THEN <<>>
                ELSE MediaURLs(node_id, audio_key, node_out[audio_key], "audio")],
        1)

\* lines 357-410: what the three passes collect
primary_media(workflow, outputs) ==
    videos_pass(workflow, outputs) \o images_pass(workflow, outputs)
        \o audio_pass(workflow, outputs)

\* lines 417-436: the files of one node in the fallback scan, from key k on
RECURSIVE fallback_node(_, _, _)
fallback_node(node_id, node_out, k) ==
    IF k > Len(OutputKeys) THEN <<>>
    ELSE LET key == OutputKeys[k]
             kind == IF key = "videos" \/ node_out.animated THEN "video"
                     ELSE IF key \in {"audio", "audios"} THEN "audio"
                     ELSE "image"
         IN  (IF node_out[key] = Absent THEN <<>>
              ELSE MediaURLs(node_id, key, node_out[key], kind))
                 \o fallback_node(node_id, node_out, k + 1)

\* lines 416-436: the fallback scan
fallback_media(outputs) ==
    over_nodes(outputs,
        [node_id \in DOMAIN outputs |-> fallback_node(node_id, outputs[node_id], 1)],
        1)

\* a variant of collect_media that runs the fallback scan in any case
collect_media_always(workflow, outputs) ==
    primary_media(workflow, outputs) \o fallback_media(outputs)

\* lines 311-436: the media list of the result
collect_media(workflow, outputs) ==
    IF primary_media(workflow, outputs) = <<>> THEN fallback_media(outputs)
    ELSE primary_media(workflow, outputs)

\* the media collection is entered with the submitted workflow and the outputs
\* of the history entry
InitResolve ==
    /\ InitQueue
    /\ max_workers = 1
    /\ per_topic_limit = 1
    /\ call = NoCall
    /\ clock = 0
    /\ render = NoRender
    /\ process = NoProcess
    /\ resolve \in [pc : {"called"}, workflow : Workflows, outputs : Outputs,
                    media : {<<>>}]

\* lines 301-436
resolve_media ==
    /\ UNCHANGED <<queue_vars, client_vars, render, process>>
    /\ resolve.pc = "called"
    /\ resolve' = [resolve EXCEPT
                      !.pc = "returned",
                      !.media = collect_media(resolve.workflow, resolve.outputs)]

NextResolve == resolve_media

SpecResolve == InitResolve /\ [][NextResolve]_vars

(***************************** prepare_workflow ****************************)
\* rules in nodes_map.nodes, and filenames in params["input_images"]
MaxRules == 2
MaxImages == 3

\* JSON values: a scalar (a string; the strings of Numbers stand for numbers),
\* kept as the one item of v, or a list of scalars; None is Python's None
Lit(s) == [list |-> FALSE, v |-> <<s>>]
List(items) == [list |-> TRUE, v |-> items]
NoneValue == [list |-> FALSE, v |-> <<"None">>]
Numbers == {"0", "2", "7", "512"}

\* the template: two text encoders, two image loaders and a node that consumes
\* the loaders by the edges ["10", 0] and ["11", 0] and has literal inputs, two
\* of them lists
Template ==
    [nid \in {"5", "6", "10", "11", "20"} |->
        IF nid \in {"5", "6"}
        THEN [class_type |-> "CLIPTextEncode",
              inputs |-> [key \in {"text"} |-> Lit("")]]
        ELSE IF nid \in {"10", "11"}
        THEN [class_type |-> "LoadImage",
              inputs |-> [key \in {"image"} |-> Lit("default.png")]]
        ELSE [class_type |-> "ImageBatch",
              inputs |-> [key \in {"image1", "image2", "width", "sizes", "tags"} |->
                  CASE key = "image1" -> List(<<"10", "0">>)
                    [] key = "image2" -> List(<<"11", "0">>)
                    [] key = "width" -> Lit("512")
                    [] key = "sizes" -> List(<<"512", "512">>)
                    [] key = "tags" -> List(<<"11", "x">>)]]]

\* the NodeRule objects of a configuration: every kind on the text encoders,
\* two kinds on the first image loader, and the input_images rule
TextTarget == <<"5", "6">>
RuleSet ==
    [type : {"Prompt", "negative_prompt", "text", "text:style", "input_image",
             "Width", "seed", "text_scale", ""},
     node_ids : {TextTarget}, key : {"text"}, param : {"style"}]
    \cup [type : {"input_image", "Width"},
          node_ids : {<<"10">>}, key : {"image"}, param : {"style"}]
    \cup [type : {"input_images"},
          node_ids : {<<"10", "11">>}, key : {"image"}, param : {"style"}]
RuleLists == UNION {[1..n -> RuleSet] : n \in 0..MaxRules}

\* the filenames of params["input_images"]
Filenames == <<"a.png", "b.png", "c.png", "d.png">>
\* a key the caller's params do not have
Missing == [list |-> FALSE, v |-> <<"missing">>]
ParamChoices ==
    [negative_prompt : {Missing, Lit("neg")},
     style : {Missing, Lit("sty")},
     input_image : {Missing, Lit("x.png")},
     input_images : {Missing} \cup {List(SubSeq(Filenames, 1, m)) : m \in 0..MaxImages},
     width : {Missing, Lit("512")},
     text_scale : {Lit("2")},
     seed : {Missing, NoneValue, Lit("7")}]
\* the caller's params dictionaries
ParamSets ==
    {[key \in {k \in DOMAIN choice : choice[k] # Missing} |-> choice[key]] :
        choice \in ParamChoices}
\* what random.randint gives
Seeds == {Lit("0"), Lit("2")}

\* dict.get(key, None)
get(params, key) == IF key \in DOMAIN params THEN params[key] ELSE NoneValue

\* (rule.type or "").strip().lower()
lower_strip(type) ==
    CASE type = "Prompt" -> "prompt"
      [] type = "Width" -> "width"
      [] OTHER -> type

\* rtype.startswith(prefix), for the kinds of RuleSet
startswith(rtype, prefix) ==
    \/ rtype = "text:style" /\ prefix \in {"text:", "text"}
    \/ rtype \in {"text", "text_scale"} /\ prefix = "text"

\* rtype.split(":", 1)[1].strip()
after_colon(rtype) == IF rtype = "text:style" THEN "style" ELSE ""

\* a variant of deep_copy that hands out the caller's object itself
same_object(workflow) == [wf |-> workflow, shared |-> TRUE]

\* json.loads(json.dumps(base_workflow)), line 88: a new object with the same
\* nodes and inputs
deep_copy(workflow) ==
    [wf |-> [nid \in DOMAIN workflow |->
                [class_type |-> workflow[nid].class_type,
                 inputs |-> [key \in DOMAIN workflow[nid].inputs |->
                                workflow[nid].inputs[key]]]],
     shared |-> FALSE]

\* the drawn seed put in place of the caller's
effective_params_drawn(params, seed) == Put(params, "seed", seed)

\* lines 89-92: eff_params, with the seed drawn when the caller gave none
effective_params(params, seed) ==
    IF "seed" \notin DOMAIN params \/ params["seed"] = NoneValue
    THEN Put(params, "seed", seed)
    ELSE params

\* `for nid in rule.node_ids: wf[nid]["inputs"][rule.key] = val` from the k-th
\* id on; g is the graph and whether a KeyError has left the function
RECURSIVE write_all(_, _, _, _, _)
write_all(g, node_ids, key, val, k) ==
    IF g.raised \/ k > Len(node_ids) THEN g
    ELSE IF node_ids[k] \notin DOMAIN g.wf THEN [g EXCEPT !.raised = TRUE]
    ELSE write_all([g EXCEPT !.wf[node_ids[k]].inputs = Put(@, key, val)],
                   node_ids, key, val, k + 1)

\* lines 136-143: the params key of a generic text rule, "" if there is none
param_key(rule, rtype) ==
    IF startswith(rtype, "text:") \/ startswith(rtype, "string:")
    THEN after_colon(rtype)
    ELSE IF rtype \in {"text", "string"} THEN rule.param
    ELSE ""

\* lines 119-149: the body of the first loop for one rule
text_rule(g, rule, prompt, eff_params) ==
    LET rtype == lower_strip(rule.type)
    IN  IF rtype = "" THEN g
        ELSE IF rtype = "prompt"
        THEN write_all(g, rule.node_ids, rule.key, prompt, 1)
        ELSE IF rtype = "negative_prompt"
        THEN IF get(eff_params, "negative_prompt") # NoneValue
             THEN write_all(g, rule.node_ids, rule.key,
                            get(eff_params, "negative_prompt"), 1)
             ELSE g
        ELSE IF param_key(rule, rtype) # ""
                /\ get(eff_params, param_key(rule, rtype)) # NoneValue
        THEN write_all(g, rule.node_ids, rule.key,
                       get(eff_params, param_key(rule, rtype)), 1)
        ELSE g

\* lines 154-159: the body of the second loop for one rule
input_image_rule(g, rule, prompt, eff_params) ==
    IF lower_strip(rule.type) = "input_image"
       /\ get(eff_params, "input_image") # NoneValue
    THEN write_all(g, rule.node_ids, rule.key, get(eff_params, "input_image"), 1)
    ELSE g

\* a variant of unlink_and_remove_nodes that removes the nodes and leaves the
\* inputs of the others alone
remove_nodes_only(wf, remove_ids) ==
    [nid \in DOMAIN wf \ {remove_ids[k] : k \in DOMAIN remove_ids} |-> wf[nid]]

\* lines 95-115
unlink_and_remove_nodes(wf, remove_ids) ==
    LET remove_set == {remove_ids[k] : k \in DOMAIN remove_ids}
        edge_to_removed(v) ==
            /\ v.list
            /\ Len(v.v) >= 1
            /\ v.v[1] \notin Numbers
            /\ v.v[1] \in remove_set
    IN  IF remove_ids = <<>> THEN wf
        ELSE [nid \in DOMAIN wf \ remove_set |->
                 [wf[nid] EXCEPT !.inputs =
                     [key \in {k \in DOMAIN @ : ~edge_to_removed(@[k])} |-> @[key]]]]

\* lines 170-177: filenames idx.. are written to node_ids idx.., a node that is
\* not in the graph is passed over
RECURSIVE write_images(_, _, _, _, _)
write_images(wf, node_ids, key, vals, idx) ==
    IF idx > Len(vals) \/ idx > Len(node_ids) THEN wf
    ELSE write_images(
             IF node_ids[idx] \in DOMAIN wf
             THEN [wf EXCEPT ![node_ids[idx]].inputs = Put(@, key, Lit(vals[idx]))]
             ELSE wf,
             node_ids, key, vals, idx + 1)

\* lines 163-186: the body of the third loop for one rule
input_images_rule(g, rule, prompt, eff_params) ==
    LET vals == get(eff_params, "input_images")
        used_count == IF Len(vals.v) <= Len(rule.node_ids) THEN Len(vals.v)
                      ELSE Len(rule.node_ids)
    IN  IF lower_strip(rule.type) # "input_images" THEN g
        ELSE IF vals.list /\ vals.v # <<>>
        THEN [g EXCEPT !.wf =
                 unlink_and_remove_nodes(
                     write_images(@, rule.node_ids, rule.key, vals.v, 1),
                     SubSeq(rule.node_ids, used_count + 1, Len(rule.node_ids)))]
        ELSE [g EXCEPT !.wf = unlink_and_remove_nodes(@, rule.node_ids)]

\* line 191: the rules the last loop passes over
skipped_by_last_loop(rtype) ==
    \/ rtype \in {"prompt", "negative_prompt", "input_image", "input_images"}
    \/ startswith(rtype, "text")
    \/ startswith(rtype, "string")

\* lines 190-198: the body of the last loop for one rule
scalar_rule(g, rule, prompt, eff_params) ==
    LET rtype == lower_strip(rule.type)
    IN  IF skipped_by_last_loop(rtype) THEN g
        ELSE IF rtype \in DOMAIN eff_params /\ eff_params[rtype] # NoneValue
        THEN write_all(g, rule.node_ids, rule.key, eff_params[rtype], 1)
        ELSE g

\* `for rule in nodes_map.nodes:` with the body of loop number pass, from the
\* k-th rule on; an exception ends the loop
RECURSIVE for_rules(_, _, _, _, _, _)
for_rules(pass, g, nodes, prompt, eff_params, k) ==
    IF g.raised \/ k > Len(nodes) THEN g
    ELSE for_rules(pass,
             CASE pass = 1 -> text_rule(g, nodes[k], prompt, eff_params)
               [] pass = 2 -> input_image_rule(g, nodes[k], prompt, eff_params)
               [] pass = 3 -> input_images_rule(g, nodes[k], prompt, eff_params)
               [] pass = 4 -> scalar_rule(g, nodes[k], prompt, eff_params),
             nodes, prompt, eff_params, k + 1)

\* lines 76-207: the graph prepare_workflow returns, or the KeyError it raises
prepare_workflow(base_workflow, nodes, prompt, params, seed) ==
    LET eff_params == effective_params(params, seed)
        g0 == [wf |-> deep_copy(base_workflow).wf, raised |-> FALSE]
        g1 == for_rules(1, g0, nodes, prompt, eff_params, 1)
        g2 == for_rules(2, g1, nodes, prompt, eff_params, 1)
        g3 == for_rules(3, g2, nodes, prompt, eff_params, 1)
    IN  for_rules(4, g3, nodes, prompt, eff_params, 1)

\* topics_repo._validate_nodes_vs_workflow, lines 98-105: every node id of a
\* rule is in the workflow and its node has inputs; the code raises ValueError
\* where this is FALSE
validated(workflow, nodes) ==
    \A k \in DOMAIN nodes : \A i \in DOMAIN nodes[k].node_ids :
        /\ nodes[k].node_ids[i] \in DOMAIN workflow
        /\ "inputs" \in DOMAIN workflow[nodes[k].node_ids[i]]

\* prepare_workflow is entered with the caller's objects
InitRender ==
    /\ InitQueue
    /\ max_workers = 1
    /\ per_topic_limit = 1
    /\ call = NoCall
    /\ clock = 0
    /\ resolve = NoResolve
    /\ process = NoProcess
    /\ render \in [pc : {0}, base_workflow : {Template}, nodes : RuleLists,
                   prompt : {Lit("a cat")}, params : ParamSets,
                   wf : {Template}, shared : {FALSE}, raised : {FALSE},
                   eff_params : {EmptyDict}]
    /\ validated(render.base_workflow, render.nodes)

\* lines 88-92: the copy of the workflow and the effective params
copy_and_seed(seed) ==
    /\ UNCHANGED <<queue_vars, client_vars, resolve, process>>
    /\ render.pc = 0
    /\ render' = [render EXCEPT
                     !.pc = 1,
                     !.wf = deep_copy(render.base_workflow).wf,
                     !.shared = deep_copy(render.base_workflow).shared,
                     !.eff_params = effective_params(render.params, seed)]

\* one loop over nodes_map.nodes: lines 118-149, 153-159, 162-186, 189-198;
\* what is written to wf is written to the caller's workflow if they are one
\* object; after the last loop the function returns wf (pc 5), or the KeyError
\* of a write has left it
loop_over_rules(pass) ==
    /\ UNCHANGED <<queue_vars, client_vars, resolve, process>>
    /\ render.pc = pass
    /\ ~render.raised
    /\ LET g == for_rules(pass, [wf |-> render.wf, raised |-> FALSE],
                          render.nodes, render.prompt, render.eff_params, 1)
       IN  render' = [render EXCEPT
                         !.pc = pass + 1,
                         !.wf = g.wf,
                         !.raised = g.raised,
                         !.base_workflow = IF render.shared THEN g.wf ELSE @]

NextRender ==
    \/ \E seed \in Seeds : copy_and_seed(seed)
    \/ \E pass \in 1..4 : loop_over_rules(pass)

SpecRender == InitRender /\ [][NextRender]_vars

(******************************* the processor ****************************)
\* _process_generate_job (bot.py 733-922), one action per awaited call up to
\* the report of a failed submission (line 859).  The delivery of the media
\* (lines 866-922) is a sequence of awaited downloads and Telegram calls that
\* change no variable of this model: the processor stays in delivery until it
\* returns or one of these calls raises.  The job has been marked started, so
\* cancel_job refuses it and job.canceled keeps the value it has on entry.

\* input assets a job carries for an input_images rule
MaxAssets == 2
\* `images[:10]`, line 778
UploadCap == 10
\* how the awaited submit_and_wait ends for the processor, lines 842-863: it
\* returns a result with media or without, wait_for gives up, or it raises
\* ComfyError or another Exception
SubmitOutcomes == {"result", "no_media", "timeout", "comfy_error", "failed"}
\* how the delivery of lines 866-922 ends: the processor returns, or an
\* awaited download or Telegram call raises
DeliveryOutcomes == {"result", "delivery_raised"}
\* the captions the processor puts on the placeholder, lines 752, 771, 785,
\* 801, 806, 829, 849, 852, 856 and 863
Captions == {"theme_not_found", "requires_input_image",
             "uploading_input_image_failed", "ph_generating",
             "generation_timeout", "comfy_error_fmt", "generation_failed",
             "no_media"}
\* how an awaited bot.edit_message_caption ends
TelegramAnswers == {"ok", "raised"}

\* the job and topic a processor call can meet
ProcessInputs ==
    [pc : {"called"},
     canceled : BOOLEAN,            \* job.canceled on entry
     topic : BOOLEAN,               \* all_topics().get(job.topic_alias) is not None
     needs_input_images : BOOLEAN,  \* line 764
     needs_input_image : BOOLEAN,   \* line 765
     images : 0..MaxAssets,         \* len(job.input_images or [])
     input_image_bytes : BOOLEAN,   \* job.input_image_bytes is not empty
     raises : BOOLEAN,              \* prepare_workflow raises for these rules
     initially_waiting : BOOLEAN,   \* job.initially_waiting, line 825
     saved_names : {0},             \* len(saved_names)
     saved_name : {FALSE},          \* params["input_image"] is set
     in_flight : {0},               \* upload_image calls running in the executor
     uploads : {0},                 \* upload_image calls made
     failed_uploads : {0},          \* upload_image calls that raised
     submissions : {0},             \* submit_and_wait calls made
     caption : {"none"},            \* the caption of the last edit_message_caption
     telegram_raised : {FALSE},     \* the processor raised Telegram's exception
     outcome : {"none"}]

\* the processor returns or raises
ended(p, outcome) == [p EXCEPT !.pc = "ended", !.outcome = outcome]

\* bot.edit_message_caption(caption) is called and awaited
edit_message_caption(p, caption) ==
    [p EXCEPT !.pc = "edit_message_caption", !.caption = caption]

\* loop.run_in_executor(None, upload_image) is called and awaited
upload(p, pc) ==
    [p EXCEPT !.pc = pc, !.in_flight = @ + 1, !.uploads = @ + 1]

\* lines 839-846: asyncio.wait_for(_run_comfy(), ...) is awaited.  wait_for
\* makes a task of _run_comfy() and the processor is suspended before that
\* task has taken its first step: submit_and_wait has not been called yet
submit(p) == [p EXCEPT !.pc = "wait_for"]

\* lines 812-846: the canceled test, prepare_workflow, the caption of a job
\* that waited, and the awaited wait_for
prepare_and_submit(p) ==
    IF p.canceled THEN ended(p, "canceled")
    ELSE IF p.raises THEN ended(p, "raised")
    ELSE IF p.initially_waiting THEN edit_message_caption(p, "ph_generating")
    ELSE submit(p)

\* lines 791-809: the single input image
single_image(p) ==
    IF p.needs_input_image /\ p.input_image_bytes THEN upload(p, "upload_image")
    ELSE IF p.needs_input_image THEN edit_message_caption(p, "requires_input_image")
    ELSE prepare_and_submit(p)

\* the number of images the loop of line 778 uploads
to_upload(p) == IF p.images <= UploadCap THEN p.images ELSE UploadCap

\* lines 768-781: the input images, from the first upload on
input_images(p) ==
    IF p.needs_input_images
    THEN IF p.images = 0 THEN edit_message_caption(p, "requires_input_image")
         ELSE upload(p, "upload_images")
    ELSE single_image(p)

\* an upload failure that is passed over
upload_failed_ignored(p, next) == next

\* lines 782-788 and 801-806: an upload_image call raised; next is where the
\* processor would go had it succeeded
upload_failed(p, next) == edit_message_caption(p, "uploading_input_image_failed")

\* a processor call on a started job
InitProcess ==
    /\ InitQueue
    /\ max_workers = 1
    /\ per_topic_limit = 1
    /\ call = NoCall
    /\ clock = 0
    /\ resolve = NoResolve
    /\ render = NoRender
    /\ process \in ProcessInputs

\* lines 741-781: from the entry to the first awaited call
process_generate_job ==
    /\ UNCHANGED <<queue_vars, client_vars, resolve, render>>
    /\ process.pc = "called"
    /\ process' = IF process.canceled THEN ended(process, "canceled")
                  ELSE IF ~process.topic
                  THEN edit_message_caption(process, "theme_not_found")
                  ELSE input_images(process)

\* lines 778-788: an upload of the loop returns a name or raises
upload_images_done(ok) ==
    /\ UNCHANGED <<queue_vars, client_vars, resolve, render>>
    /\ process.pc = "upload_images"
    /\ LET p == [process EXCEPT !.in_flight = @ - 1] IN
       process' =
           IF ok
           THEN LET q == [p EXCEPT !.saved_names = @ + 1] IN
                IF q.saved_names < to_upload(q) THEN upload(q, "upload_images")
                ELSE single_image(q)
           ELSE LET q == [p EXCEPT !.failed_uploads = @ + 1] IN
                upload_failed(q,
                    IF q.saved_names + q.failed_uploads < to_upload(q)
                    THEN upload(q, "upload_images")
                    ELSE single_image(q))

\* lines 795-806: the upload of the single image returns a name or raises
upload_image_done(ok) ==
    /\ UNCHANGED <<queue_vars, client_vars, resolve, render>>
    /\ process.pc = "upload_image"
    /\ LET p == [process EXCEPT !.in_flight = @ - 1] IN
       process' =
           IF ok THEN prepare_and_submit([p EXCEPT !.saved_name = TRUE])
           ELSE LET q == [p EXCEPT !.failed_uploads = @ + 1] IN
                upload_failed(q, prepare_and_submit(q))

\* the outcome of a processor call that ends after the edit of caption
outcome_of(caption) ==
    CASE caption = "generation_timeout" -> "timeout"
      [] caption = "comfy_error_fmt" -> "comfy_error"
      [] caption = "generation_failed" -> "failed"
      [] OTHER -> caption

\* lines 751-757, 771-774, 785-788, 801-804, 806-809, 827-835, 849-850,
\* 852-853, 856-859 and 863-864: the awaited edit_message_caption returns or raises.
\* An exception is passed over for the captions theme_not_found and
\* ph_generating (try / except Exception) and leaves the processor for the
\* others.
edit_message_caption_done(answer) ==
    /\ UNCHANGED <<queue_vars, client_vars, resolve, render>>
    /\ process.pc = "edit_message_caption"
    /\ process' =
           IF process.caption = "ph_generating" THEN submit(process)
           ELSE IF process.caption = "theme_not_found"
           THEN ended(process, "theme_not_found")
           ELSE [ended(process, outcome_of(process.caption)) EXCEPT
                    !.telegram_raised = (answer = "raised")]

\* lines 842-843: the task of _run_comfy() takes its first step and calls
\* loop.run_in_executor(None, submit_and_wait)
run_comfy ==
    /\ UNCHANGED <<queue_vars, client_vars, resolve, render>>
    /\ process.pc = "wait_for"
    /\ process' = [process EXCEPT !.pc = "submit_and_wait", !.submissions = @ + 1]

\* lines 842-864: the awaited submit_and_wait call ends, or wait_for gives
\* up; a failure and a result without media are reported on the placeholder,
\* a result with media is delivered
submit_done(outcome) ==
    /\ UNCHANGED <<queue_vars, client_vars, resolve, render>>
    /\ process.pc = "submit_and_wait"
    /\ process' =
           CASE outcome = "result" -> [process EXCEPT !.pc = "delivery"]
             [] outcome = "no_media" -> edit_message_caption(process, "no_media")
             [] outcome = "timeout" ->
                    edit_message_caption(process, "generation_timeout")
             [] outcome = "comfy_error" ->
                    edit_message_caption(process, "comfy_error_fmt")
             [] OTHER -> edit_message_caption(process, "generation_failed")

\* lines 866-922: the delivery ends
delivery_done(outcome) ==
    /\ UNCHANGED <<queue_vars, client_vars, resolve, render>>
    /\ process.pc = "delivery"
    /\ process' = ended(process, outcome)

\* the task is cancelled while the processor is suspended in an await:
\* asyncio.CancelledError is raised there, no `except Exception` catches it
\* and it leaves the processor; an upload_image call keeps running in its
\* executor thread, and a task of _run_comfy() that has not taken its first
\* step is cancelled with it, so that submit_and_wait is never called
task_cancelled ==
    /\ UNCHANGED <<queue_vars, client_vars, resolve, render>>
    /\ process.pc \in {"upload_images", "upload_image", "edit_message_caption",
                       "wait_for", "submit_and_wait", "delivery"}
    /\ process' = ended(process, "CancelledError")

\* lines 779 and 796: the upload_image call of a cancelled processor returns
\* or raises in its executor thread
upload_thread_done(ok) ==
    /\ UNCHANGED <<queue_vars, client_vars, resolve, render>>
    /\ process.pc = "ended"
    /\ process.in_flight > 0
    /\ process' = [process EXCEPT !.in_flight = @ - 1,
                                  !.failed_uploads = IF ok THEN @ ELSE @ + 1]

NextProcess ==
    \/ process_generate_job
    \/ \E ok \in BOOLEAN : upload_images_done(ok)
    \/ \E ok \in BOOLEAN : upload_image_done(ok)
    \/ \E answer \in TelegramAnswers : edit_message_caption_done(answer)
    \/ run_comfy
    \/ \E outcome \in SubmitOutcomes : submit_done(outcome)
    \/ \E outcome \in DeliveryOutcomes : delivery_done(outcome)
    \/ task_cancelled
    \/ \E ok \in BOOLEAN : upload_thread_done(ok)

SpecProcess == InitProcess /\ [][NextProcess]_vars

(************************** what the claims measure ***********************)

\* the jobs of requester u accepted and neither started nor canceled
PendingJobs(u) ==
    {j \in registry : jobs[j].user_id = u /\ ~jobs[j].started /\ ~jobs[j].canceled}

\* the workers inside their processor call
Processing == {w \in Aliases \X (1..per_topic_limit) :
                  w[1] \in DOMAIN workers /\ workers[w[1]][w[2]].pc = "proc"}

\* the jobs whose processor call is in progress: marked started and held by a
\* worker that is inside the call
InProgress == {j \in DOMAIN jobs :
                  /\ jobs[j].started
                  /\ \E w \in Processing : workers[w[1]][w[2]].job = j}

\* the workers blocked on the global semaphore
Blocked == {w \in Aliases \X (1..per_topic_limit) :
               w[1] \in DOMAIN workers /\ workers[w[1]][w[2]].pc = "sema"}

(********************************* claims *********************************)
\* C1: at every moment the number of jobs whose processor call is in progress
\* is at most max_workers, and so is the number of workers inside a processor
\* call; with max_workers = 1 at most one job is being processed.
C1_GlobalCap ==
    /\ Cardinality(InProgress) <= max_workers
    /\ Cardinality(Processing) <= max_workers
    /\ Cardinality(InProgress) = Cardinality(Processing)

\* C1 witness (Scenario C): caps 1 and 1, the first job of a topic is being
\* processed while the second job of the same topic waits in the queue.
C1_Witness ==
    /\ max_workers = 1
    /\ per_topic_limit = 1
    /\ \E a \in DOMAIN workers :
          /\ workers[a][1].pc = "proc"
          /\ queues[a] # <<>>
          /\ Head(queues[a]) # NoJob
          /\ ~jobs[Head(queues[a])].started

\* C2 (the claim as stated): for every identified requester the pending counter
\* equals the number of its accepted jobs neither started nor canceled plus the
\* reservations its callers hold, and the slot of a job is freed at most once.
C2_CounterExact ==
    /\ \A u \in Identified :
          pending_count_by_user(u) = Cardinality(PendingJobs(u)) + resv[u]
    /\ \A j \in DOMAIN jobs : freed[j] <= 1

\* C4 (the claim as stated): no job is both canceled and started, and the
\* processor is never invoked for a job whose cancellation succeeded.
C4_CanceledNeverStarted ==
    \A j \in DOMAIN jobs :
        cancel_true[j] > 0 => (~jobs[j].started /\ invoked[j] = 0)

\* C3 (the claim as stated): when every admission of the identified
\* requesters passes the limit AdmitLimit, no requester has more than
\* AdmitLimit accepted jobs that are neither started nor canceled.
C3_BacklogWithinLimit ==
    \A u \in Identified : Cardinality(PendingJobs(u)) <= AdmitLimit

\* C6 (the claim as stated): a requester with AdmitLimit or more accepted jobs
\* neither started nor canceled is refused by can_enqueue.
C6_FullBacklogRefused ==
    \A u \in Identified :
        Cardinality(PendingJobs(u)) >= AdmitLimit => ~can_enqueue_result(u, AdmitLimit)

\* the condition of C5 under which cancel_job accepts: registered, not
\* started, not yet canceled
Cancelable(id) ==
    id \in registry /\ ~jobs[id].started /\ ~jobs[id].canceled

\* C5: cancel_job(id) returns True iff the job is in the registry, has not
\* started and has not been canceled; over all calls made for one job it
\* returns True at most once, exactly when it sets the canceled flag, and
\* False in every state after that.
C5_CancelOnce ==
    \A id \in JobIds :
        /\ cancel_job_result(id) <=> Cancelable(id)
        /\ id \in DOMAIN jobs =>
              /\ cancel_true[id] <= 1
              /\ cancel_true[id] = 1 <=> jobs[id].canceled
              /\ cancel_true[id] = 1 => ~cancel_job_result(id)

\* C5 witness: a cancellation succeeded for a job that is still registered and
\* not started, so that a second call is refused.
C5_Witness ==
    \E j \in registry : cancel_true[j] = 1 /\ ~jobs[j].started

\* C7: cancel_job on a job already marked started returns False, and the call
\* changes nothing: not the job's flags, not the counters, not the registry,
\* not the worker that is inside the processor call.
C7_StartedNotCancelable ==
    /\ [](\A j \in DOMAIN jobs : jobs[j].started => ~cancel_job_result(j))
    /\ [][\A id \in JobIds :
             (id \in DOMAIN jobs /\ jobs[id].started /\ cancel_job(id))
                 => UNCHANGED vars]_vars

\* C7 witness: a registered job is started and inside its processor call (the
\* state cancel_job is called in, and the state it leaves).
C7_Witness ==
    \E w \in Processing :
        /\ workers[w[1]][w[2]].job \in registry
        /\ jobs[workers[w[1]][w[2]].job].started
        /\ ~jobs[workers[w[1]][w[2]].job].canceled

\* the jobs of topic alias whose processor call is in progress
InProgressOf(alias) == {j \in InProgress : jobs[j].topic_alias = alias}

\* a call that runs _ensure_workers(alias)
UsesTopic(alias) ==
    \/ will_queue(alias)
    \/ \E user_id \in Users : enqueue(alias, user_id)
    \/ \E user_id \in Users, per_user_limit \in Limits :
           enqueue_limited(alias, user_id, per_user_limit)
    \/ \E user_id \in Users, reserved \in BOOLEAN :
           enqueue_reserved(alias, user_id, reserved)

\* C8: for each topic at most per_topic_limit of its jobs are being processed;
\* no pool exists before the topic is first used, a pool is created by a call
\* for its topic with exactly per_topic_limit workers waiting on the queue, and
\* a later call for a topic that has a pool leaves every pool as it is.
C8_TopicPool ==
    /\ workers = EmptyDict
    /\ [](\A a \in DOMAIN workers :
             /\ DOMAIN workers[a] = 1..per_topic_limit
             /\ Cardinality(InProgressOf(a)) <= per_topic_limit
             /\ Cardinality({w \in Processing : w[1] = a}) <= per_topic_limit)
    /\ [][\A a \in Aliases :
             /\ (a \notin DOMAIN workers /\ a \in DOMAIN workers')
                    => /\ UsesTopic(a)
                       /\ workers'[a] = [i \in 1..per_topic_limit |->
                                            [pc |-> "get", job |-> NoJob]]
             /\ (a \in DOMAIN workers
                    /\ (workers' # workers \/ worker_keys' # worker_keys))
                    => ~UsesTopic(a)
             /\ a \in DOMAIN workers => a \in DOMAIN workers']_vars

\* C8 witness: with two permits and per-topic limit 1, one job of a topic is
\* being processed and the next job of the same topic waits in the queue while
\* a global permit is free.
C8_Witness ==
    /\ max_workers = 2
    /\ per_topic_limit = 1
    /\ sema_value >= 1
    /\ \E a \in DOMAIN workers :
          /\ Cardinality(InProgressOf(a)) = 1
          /\ queues[a] # <<>>

\* the limits that are in force
PositiveLimits == {l \in Limits : l > 0}

\* C9: for an identified requester and a positive limit reserve_user_slot
\* returns True iff the count is below the limit; a call that returns True
\* raises the count of that requester by exactly one and changes nothing else
\* of the controller, after which a call with one slot left is refused; a call
\* that returns False changes nothing. (Steps that change nothing satisfy the
\* step formula; they are set aside first.)
C9_ReserveAtomic ==
    /\ [](\A u \in Identified, l \in PositiveLimits :
             reserve_user_slot_result(u, l) <=> pending_count_by_user(u) < l)
    /\ [][vars' # vars => \A u \in Identified, l \in PositiveLimits :
             reserve_user_slot(u, l) =>
                 IF pending_count_by_user(u) < l
                 THEN /\ pending_by_user' =
                             Put(pending_by_user, u, pending_count_by_user(u) + 1)
                      /\ resv' = [resv EXCEPT ![u] = @ + 1]
                      /\ (pending_count_by_user(u) = l - 1
                             => ~reserve_user_slot_result(u, l)')
                      /\ UNCHANGED <<queues, workers, registry, jobs, sema_value,
                                     sema_waiters, active_global, active_per_topic>>
                 ELSE UNCHANGED vars]_vars

\* C9 witness: a requester holds a reservation that filled its last slot under
\* limit 1, with no job of its own pending.
C9_Witness ==
    \E u \in Identified :
        /\ resv[u] = 1
        /\ pending_count_by_user(u) = 1
        /\ PendingJobs(u) = {}
        /\ ~reserve_user_slot_result(u, 1)

\* C10: release_user_slot lowers a positive count of its requester by exactly
\* one and does nothing when the requester has no entry; no count is ever
\* below zero; the other requesters' counts, the registry, the queues, the
\* jobs and the workers are unchanged.
C10_ReleaseFrame ==
    /\ [](\A u \in DOMAIN pending_by_user : pending_by_user[u] >= 0)
    /\ [][vars' # vars => \A u \in Users :
             release_user_slot(u) =>
                 /\ (u \in Identified /\ pending_count_by_user(u) > 0)
                        => pending_count_by_user(u)' = pending_count_by_user(u) - 1
                 /\ u \notin DOMAIN pending_by_user
                        => pending_by_user' = pending_by_user
                 /\ \A v \in Users \ {u} :
                        pending_count_by_user(v)' = pending_count_by_user(v)
                 /\ UNCHANGED <<queues, workers, registry, jobs, sema_value,
                                sema_waiters, active_global, active_per_topic>>]_vars

\* C10 witness: a requester has a job waiting to start, no job was ever
\* canceled, and the requester has no entry in the counters: a release without
\* a reservation lowered the count from one and removed the entry, and the
\* next release finds no entry.
C10_Witness ==
    \E u \in Identified :
        /\ PendingJobs(u) # {}
        /\ resv[u] = 0
        /\ u \notin DOMAIN pending_by_user
        /\ \A j \in DOMAIN jobs : cancel_true[j] = 0

\* C11: an enqueue that is not refused registers the job under its message id,
\* appends it to the queue of its topic and leaves the other queues alone; it
\* raises the count of an identified requester by one when reserved is False
\* (and in plain enqueue) and by zero when reserved is True, where it consumes
\* the reservation that raised the count before; no other count changes.
C11_EnqueueCounts ==
    [][vars' # vars =>
       \A alias \in Aliases, user_id \in Users, reserved \in BOOLEAN :
          ((~rejected /\ enqueue_reserved(alias, user_id, reserved))
              \/ (~rejected /\ ~reserved /\ enqueue(alias, user_id)))
          => /\ next_message_id \notin registry
             /\ registry' = registry \cup {next_message_id}
             /\ jobs'[next_message_id] = GenerateJob(user_id, alias)
             /\ queues'[alias] = Append(Get(queues, alias, <<>>), next_message_id)
             /\ \A a \in DOMAIN queues \ {alias} : queues'[a] = queues[a]
             /\ user_id \in Identified
                   => Get(pending_by_user', user_id, 0) =
                          pending_count_by_user(user_id) + (IF reserved THEN 0 ELSE 1)
             /\ reserved => resv' = [resv EXCEPT ![user_id] = @ - 1]
             /\ \A v \in Users \ {user_id} :
                   Get(pending_by_user', v, 0) = pending_count_by_user(v)]_vars

\* C11 witness: the only job of a requester waits in the queue of its topic,
\* registered, with the requester's count at one and no reservation left open.
C11_Witness ==
    \E u \in Identified, j \in registry :
        /\ PendingJobs(u) = {j}
        /\ \E k \in DOMAIN queues[jobs[j].topic_alias] :
               queues[jobs[j].topic_alias][k] = j
        /\ pending_count_by_user(u) = 1
        /\ resv[u] = 0
        /\ get_job(j) = j

\* C12: an enqueue, enqueue_limited or enqueue_reserved called on a controller
\* that is closed or has no processor leaves the registry, the queues, the
\* worker pools, the counters and everything else as they were.
C12_RejectedEnqueue ==
    [][vars' # vars =>
       \A alias \in Aliases, user_id \in Users :
          (closed \/ ~processor)
          => /\ ~enqueue(alias, user_id)
             /\ \A per_user_limit \in Limits :
                    ~enqueue_limited(alias, user_id, per_user_limit)
             /\ \A reserved \in BOOLEAN :
                    ~enqueue_reserved(alias, user_id, reserved)]_vars

\* C12 witness: the controller is closed by a shutdown that still waits for a
\* worker, with a processor set and a job registered.
C12_Witness ==
    closed /\ processor /\ shutdown_st.pc = "waiting" /\ registry # {}

\* C13: can_enqueue(R, L) returns True iff L is None or not positive, or R is
\* not identified, or the count of R is below L; a can_enqueue call is never a
\* step that changes the state.
C13_CanEnqueueReadOnly ==
    /\ [](\A u \in Users, l \in Limits :
             can_enqueue_result(u, l) <=>
                 (l = NoneLimit \/ l <= 0 \/ u <= 0 \/ pending_count_by_user(u) < l))
    /\ [][vars' # vars =>
             \A u \in Users, l \in Limits : ~can_enqueue(u, l)]_vars

\* C13 witness: a requester with count one is refused under limit 1 and allowed
\* under limit 2, under a disabled limit, and as the anonymous requester.
C13_Witness ==
    \E u \in Identified :
        /\ pending_count_by_user(u) = 1
        /\ ~can_enqueue_result(u, 1)
        /\ can_enqueue_result(u, 2)
        /\ can_enqueue_result(u, 0)
        /\ can_enqueue_result(u, NoneLimit)
        /\ can_enqueue_result(0, 1)

\* the worker (alias, i) holds job: it waits for a permit with it or is
\* inside the processor call for it
Holds(alias, i, job) ==
    /\ alias \in DOMAIN workers
    /\ i \in DOMAIN workers[alias]
    /\ workers[alias][i].pc \in {"sema", "proc"}
    /\ workers[alias][i].job = job

\* C14: when the processor call of a worker fails, by an Exception or by any
\* other exception, the worker gives back the global permit, removes the job
\* from the registry and is back at q.get(), not ended; the queue of its topic
\* keeps the jobs that wait for it.
C14_FailureSurvived ==
    [][vars' # vars =>
       \A alias \in Aliases, i \in 1..per_topic_limit :
          \A outcome \in ProcessorOutcomes \ {"returned"} :
             worker_after(alias, i, outcome)
             => /\ sema_value' = sema_value + 1
                /\ workers[alias][i].job \in registry
                /\ registry' = registry \ {workers[alias][i].job}
                /\ workers'[alias][i] = [pc |-> "get", job |-> NoJob]
                /\ queues' = queues
                /\ active_global' = active_global - 1]_vars

\* the job waits in the queue of its topic
Queued(job) ==
    /\ jobs[job].topic_alias \in DOMAIN queues
    /\ \E k \in DOMAIN queues[jobs[job].topic_alias] :
           queues[jobs[job].topic_alias][k] = job

\* C15: get_job(id) returns the job exactly while the job waits in its queue
\* or is held by a worker; once the processor call has ended or the worker has
\* dropped the job as canceled, get_job(id) returns nothing.
C15_RegistryLifetime ==
    \A j \in DOMAIN jobs :
        (get_job(j) = j) <=>
            (Queued(j) \/ \E alias \in Aliases, i \in 1..per_topic_limit :
                              Holds(alias, i, j))

\* C16: in every queue the jobs stand in the order of their acceptance, and
\* every job of the topic that has left the queue was accepted before every
\* job that still waits in it: the workers of a topic take its jobs in the
\* order in which they were enqueued.
C16_TopicFifo ==
    \A alias \in DOMAIN queues :
        /\ \A k \in 1..(Len(queues[alias]) - 1) :
               queues[alias][k] < queues[alias][k + 1]
        /\ \A j \in DOMAIN jobs, k \in DOMAIN queues[alias] :
               (jobs[j].topic_alias = alias /\ ~Queued(j)) => j < queues[alias][k]

\* C16 witness: a topic's first job has been taken by a worker while its second
\* job, accepted later, still waits in the queue.
C16_Witness ==
    \E alias \in DOMAIN queues, j \in DOMAIN jobs :
        /\ queues[alias] # <<>>
        /\ jobs[j].topic_alias = alias
        /\ ~Queued(j)
        /\ j < Head(queues[alias])
        /\ jobs[Head(queues[alias])].topic_alias = alias

\* C17: once shutdown() has completed, every worker task has exited, the
\* registry and the counters are empty, no queue holds an item, and the enqueue
\* methods refuse.
C17_AfterShutdown ==
    shutdown_st.pc = "done" =>
        /\ \A alias \in DOMAIN workers : pool_done(alias)
        /\ registry = {}
        /\ \A alias \in DOMAIN queues : queues[alias] = <<>>
        /\ pending_by_user = EmptyDict
        /\ rejected

\* an execution_error event for the execution the call tracks
TrackedError(frame) ==
    /\ frame.kind = "execution_error"
    /\ frame.prompt_id = call.prompt_id

\* C18 as amended: an execution_error event for the tracked id makes the call
\* fail at once, with the event's message when it carries a non-empty one and
\* with the fixed text "ComfyUI execution error" when the message is missing or
\* empty; the call returns no result and has not queried, and never queries,
\* the history.
C18_ErrorMessage ==
    /\ [][vars' # vars =>
            \A frame \in Frames :
                (TrackedError(frame) /\ ws_recv(frame)) =>
                    /\ call'.pc = "failed"
                    /\ call'.raised = IF frame.message \in {NoMessage, ""}
                                      THEN "ComfyUI execution error"
                                      ELSE frame.message
                    /\ call'.result = NoResult
                    /\ call'.history_gets = 0
                    /\ call'.ws = "closed"]_vars
    /\ [][call.pc = "failed" => call' = call]_vars

\* C18 witness: the call has failed with the message "OOM" of an
\* execution_error event, without a result and without a history query.
C18_Witness ==
    /\ call.pc = "failed"
    /\ call.raised = "OOM"
    /\ call.prompt_id # NoPrompt
    /\ call.result = NoResult
    /\ call.history_gets = 0

\* C18 as stated: an execution_error event for the tracked id that carries a
\* message makes the call fail with exactly that message.
C18_ErrorVerbatim ==
    [][vars' # vars =>
          \A frame \in Frames :
              (TrackedError(frame) /\ frame.message # NoMessage /\ ws_recv(frame)) =>
                  /\ call'.pc = "failed"
                  /\ call'.raised = frame.message
                  /\ call'.result = NoResult
                  /\ call'.history_gets = 0]_vars

\* a frame that is binary, or an event that names another execution
Foreign(frame) ==
    \/ frame.kind = "binary"
    \/ /\ frame.kind \in {"executing", "execution_error", "other_event"}
       /\ frame.prompt_id # call.prompt_id

\* C19: a binary frame, and an event that names another execution id, is
\* ignored: it changes neither the timestamps nor the done flag, does not make
\* the call fail, and the call goes on reading.
C19_ForeignIgnored ==
    [][vars' # vars =>
          \A frame \in Frames :
              (Foreign(frame) /\ ws_recv(frame)) =>
                  call' = [call EXCEPT !.pc = "loop"]]_vars

\* C20: the call goes Connect, Submit, Await, Resolve: the graph is posted once
\* and only on an open channel, reading stops at the completion event of the
\* tracked execution, and the history is queried once and only after that
\* event.
C20_ProtocolOrder ==
    /\ [](/\ call.posts <= 1
          /\ call.history_gets <= 1
          /\ call.pc \in {"idle", "connect", "post"} => call.prompt_id = NoPrompt
          /\ call.pc \in {"idle", "connect"} => call.posts = 0
          /\ call.pc \in {"loop", "recv", "history"} => call.ws = "open"
          /\ call.done => /\ call.pc \in {"history", "returned", "failed"}
                          /\ call.t_exec_done # NoTime
                          /\ call.posts = 1
          /\ call.history_gets = 1 => call.done
          /\ call.pc = "returned" => call.history_gets = 1)
    /\ [][call'.posts # call.posts => call.ws = "open" /\ call.posts = 0]_vars
    /\ [][call'.history_gets # call.history_gets =>
              call.done /\ call.history_gets = 0]_vars
    /\ [][vars' # vars =>
              \A frame \in Frames :
                  (/\ frame.kind = "executing"
                   /\ frame.prompt_id = call.prompt_id
                   /\ frame.node = NoNode
                   /\ ws_recv(frame)) =>
                      call'.done /\ call'.pc = "history"]_vars
    /\ [][call.done => \A frame \in Frames : ~ws_recv(frame)]_vars

\* C20 witness: a call has returned after one POST and one history query that
\* followed the completion event.
C20_Witness ==
    /\ call.pc = "returned"
    /\ call.posts = 1
    /\ call.history_gets = 1
    /\ call.done
    /\ call.result.comfy_queue_s >= 0

\* an executing event of the tracked execution that names a node
TrackedNode(frame) ==
    /\ frame.kind = "executing"
    /\ frame.prompt_id = call.prompt_id
    /\ frame.node # NoNode

\* C21: t_exec_start is the time of the first executing event with a node for
\* the tracked id and later such events leave it alone; a returned call
\* reports queue = max(0, t_exec_start - t_queued) and exec = max(0,
\* t_exec_done - t_exec_start), or, when no such event came before the
\* completion, queue = max(0, t_exec_done - t_queued) and exec = 0; both are
\* never negative.
C21_Timings ==
    /\ [](call.pc = "returned" =>
            /\ call.result.comfy_queue_s >= 0
            /\ call.result.comfy_exec_s >= 0
            /\ call.t_queued # NoTime /\ call.t_exec_done # NoTime
            /\ IF call.t_exec_start # NoTime
               THEN /\ call.result.comfy_queue_s =
                           Max(0, call.t_exec_start - call.t_queued)
                    /\ call.result.comfy_exec_s =
                           Max(0, call.t_exec_done - call.t_exec_start)
               ELSE /\ call.result.comfy_queue_s =
                           Max(0, call.t_exec_done - call.t_queued)
                    /\ call.result.comfy_exec_s = 0)
    /\ [][vars' # vars =>
            \A frame \in Frames :
                (TrackedNode(frame) /\ ws_recv(frame)) =>
                    call'.t_exec_start = IF call.t_exec_start = NoTime THEN clock
                                         ELSE call.t_exec_start]_vars
    /\ [][call'.t_exec_start # call.t_exec_start =>
              /\ call.t_exec_start = NoTime
              /\ \E frame \in Frames : TrackedNode(frame) /\ ws_recv(frame)]_vars
    /\ [][call'.t_queued # call.t_queued =>
              call.pc = "post" /\ call'.t_queued = clock]_vars
    /\ [][call'.t_exec_done # call.t_exec_done =>
              call.pc = "recv" /\ call'.t_exec_done = clock /\ call'.done]_vars

\* C21 witness: a call returned after a first and a later executing event with
\* a node and reports the gap between the first one and the completion.
C21_Witness ==
    /\ call.pc = "returned"
    /\ call.t_exec_start # NoTime
    /\ call.t_queued < call.t_exec_start
    /\ call.t_exec_start < call.t_exec_done
    /\ call.result.comfy_queue_s = call.t_exec_start - call.t_queued
    /\ call.result.comfy_exec_s = call.t_exec_done - call.t_exec_start

\* C22: at the head of the wait loop the call fails with the timeout error
\* exactly when the time elapsed since the submission exceeds the run timeout,
\* and a terminal event of the tracked execution is processed only within the
\* run timeout since the submission.
C22_TimeoutSinceSubmit ==
    /\ [][vars' # vars =>
            (loop_deadline =>
                ((call'.raised = "Generation timeout exceeded")
                    <=> (clock - call.t_queued > RunTimeout)))]_vars
    /\ [][vars' # vars =>
            \A frame \in Frames :
                (/\ frame.prompt_id = call.prompt_id
                 /\ \/ frame.kind = "execution_error"
                    \/ frame.kind = "executing" /\ frame.node = NoNode
                 /\ ws_recv(frame)) =>
                    clock - call.t_queued <= RunTimeout]_vars

\* C23: whenever the call has left submit_and_wait, by its result or by any
\* error, abandoned by its awaiter or not, the channel is closed; the channel
\* is open only inside the call, and a closed channel is not opened again.
C23_ChannelClosed ==
    /\ [](/\ call.pc \in {"returned", "failed"} => call.ws = "closed"
          /\ call.ws = "open" => call.pc \in {"post", "loop", "recv", "history"}
          /\ call.abandoned => call.pc # "idle")
    /\ [][call.ws = "closed" => call'.ws = "closed"]_vars

\* C23 witness: a call whose awaiter gave up has run into the timeout and left
\* with the channel closed.
C23_Witness ==
    /\ call.abandoned
    /\ call.pc = "failed"
    /\ call.raised = "Generation timeout exceeded"
    /\ call.ws = "closed"

\* the files the outputs of the history list: <<node id, key, index>>
Listed(outputs) ==
    {f \in (DOMAIN outputs) \X {"videos", "images", "audio", "audios"}
                \X (1..(MaxFiles + 1)) :
        f[3] <= outputs[f[1]][f[2]]}

\* the number of items of media made from the listed file f
Artifacts(media, f) ==
    Cardinality({i \in DOMAIN media :
                    media[i].node = f[1] /\ media[i].key = f[2] /\ media[i].idx = f[3]})

\* every listed file has exactly one item in media, and media has nothing else
OnePerFile(media, outputs) ==
    /\ \A f \in Listed(outputs) : Artifacts(media, f) = 1
    /\ Len(media) = Cardinality(Listed(outputs))

\* node_id is a SaveVideo node of the workflow or its output is flagged animated
VideoNode(node_id) ==
    resolve.workflow[node_id] = "SaveVideo" \/ resolve.outputs[node_id].animated

\* the outputs list one file, an image of a node that is no video node
SingleImage ==
    \E node_id \in DOMAIN resolve.outputs :
        /\ Listed(resolve.outputs) = {<<node_id, "images", 1>>}
        /\ ~VideoNode(node_id)

\* C24 as amended: when the three passes collect something, the files under
\* videos or images of a video node (SaveVideo class or animated flag) are of
\* kind video, the images of any other node are of kind image, and the files
\* under audio or audios of any node, a video node included, are of kind audio;
\* when the fallback scan delivers the result, a file is of kind video if it is
\* under videos or its node is flagged animated, else of kind audio under audio
\* or audios, else of kind image, whatever the class of its node. A history
\* whose only file is one image of a node that is no video node gives exactly
\* one item, an image.
C24_KindByField ==
    resolve.pc = "returned" =>
        /\ \A i \in DOMAIN resolve.media :
               LET m == resolve.media[i]
               IN  /\ m.mime = m.kind
                   /\ IF primary_media(resolve.workflow, resolve.outputs) # <<>>
                      THEN /\ m.key \in {"audio", "audios"} => m.kind = "audio"
                           /\ (m.key \in {"videos", "images"} /\ VideoNode(m.node))
                                  => m.kind = "video"
                           /\ (m.key = "images" /\ ~VideoNode(m.node))
                                  => m.kind = "image"
                           /\ (m.key = "videos") => VideoNode(m.node)
                      ELSE m.kind =
                               IF m.key = "videos" \/ resolve.outputs[m.node].animated
                               THEN "video"
                               ELSE IF m.key \in {"audio", "audios"} THEN "audio"
                               ELSE "image"
        /\ SingleImage =>
               /\ Len(resolve.media) = 1
               /\ resolve.media[1].kind = "image"
               /\ resolve.media[1].key = "images"

\* C24 witness: the collection ran on a history with a single image of a node
\* that is no video node and returned one image.
C24_Witness ==
    /\ resolve.pc = "returned"
    /\ SingleImage
    /\ Len(resolve.media) = 1
    /\ resolve.media[1].kind = "image"

\* C24 as stated: every item of the result that comes from a video node is of
\* kind video.
C24_VideoNodeOnlyVideo ==
    resolve.pc = "returned" =>
        \A i \in DOMAIN resolve.media :
            VideoNode(resolve.media[i].node) => resolve.media[i].kind = "video"

\* C25: the result has exactly one item for every file the history lists under
\* videos, images, audio or audios: none is left out and none is there twice.
C25_OnePerFile ==
    resolve.pc = "returned" => OnePerFile(resolve.media, resolve.outputs)

\* C26: when the three passes collected nothing, the result is the fallback
\* scan, one item for every listed file of every node; when they collected
\* something, the result is what they collected and nothing more.
C26_FallbackIff ==
    resolve.pc = "returned" =>
        IF primary_media(resolve.workflow, resolve.outputs) = <<>>
        THEN OnePerFile(resolve.media, resolve.outputs)
        ELSE resolve.media = primary_media(resolve.workflow, resolve.outputs)

\* C26 witness: the passes collected nothing and the fallback scan delivered
\* the files of two keys.
C26_Witness ==
    /\ resolve.pc = "returned"
    /\ primary_media(resolve.workflow, resolve.outputs) = <<>>
    /\ Len(resolve.media) >= 2
    /\ \E i, j \in DOMAIN resolve.media : resolve.media[i].key # resolve.media[j].key

\* prepare_workflow has returned its graph
Rendered == render.pc = 5 /\ ~render.raised

\* the ids of a sequence of node ids
Ids(node_ids) == {node_ids[i] : i \in DOMAIN node_ids}

\* the filenames the caller supplied: none if the list is absent
Supplied ==
    IF get(render.eff_params, "input_images").list
    THEN get(render.eff_params, "input_images").v
    ELSE <<>>

\* the target nodes of an input_images rule that get a filename, and the rest
Used(rule) == IF Len(Supplied) <= Len(rule.node_ids) THEN Len(Supplied)
              ELSE Len(rule.node_ids)
Surplus(rule) == {rule.node_ids[i] : i \in (Used(rule) + 1)..Len(rule.node_ids)}

\* some input of some node of wf is an edge from one of ids
Dangling(wf, ids) ==
    \E nid \in DOMAIN wf : \E key \in DOMAIN wf[nid].inputs :
        LET v == wf[nid].inputs[key]
        IN  v.list /\ Len(v.v) >= 1 /\ v.v[1] \in ids

\* the input_images rules of the call
ImagesRules ==
    {render.nodes[k] : k \in {i \in DOMAIN render.nodes :
                                  lower_strip(render.nodes[i].type) = "input_images"}}

\* C27: the loop over the input_images rules writes filename i to target node i
\* for every i up to the smaller of the two lengths, removes the target nodes
\* beyond that (all of them when no list or an empty list is supplied) and
\* nothing else, and leaves no input that is an edge from a removed node; the
\* graph that is returned has the first targets, lacks the others and has no
\* such edge.
C27_Pruning ==
    /\ [][vars' # vars =>
            (loop_over_rules(3) =>
                \A rule \in ImagesRules :
                    /\ \A i \in 1..Used(rule) :
                           /\ rule.node_ids[i] \in DOMAIN render'.wf
                           /\ render'.wf[rule.node_ids[i]].inputs[rule.key]
                                  = Lit(Supplied[i])
                    /\ Surplus(rule) \cap DOMAIN render'.wf = {}
                    /\ DOMAIN render'.wf = DOMAIN render.wf \ Surplus(rule)
                    /\ ~Dangling(render'.wf, Surplus(rule)))]_vars
    /\ [](Rendered =>
            \A rule \in ImagesRules :
                /\ Cardinality(Ids(rule.node_ids) \cap DOMAIN render.wf) = Used(rule)
                /\ \A i \in 1..Used(rule) : rule.node_ids[i] \in DOMAIN render.wf
                /\ DOMAIN render.wf = DOMAIN render.base_workflow \ Surplus(rule)
                /\ ~Dangling(render.wf, Surplus(rule)))

\* C27 witness: with two target nodes and one filename the returned graph has
\* the first loader with the filename, lacks the second, and the consumer has
\* kept its edge from the first and lost its edge from the second.
C27_Witness ==
    /\ Rendered
    /\ ImagesRules # {}
    /\ Len(Supplied) = 1
    /\ "10" \in DOMAIN render.wf
    /\ render.wf["10"].inputs["image"] = Lit("a.png")
    /\ "11" \notin DOMAIN render.wf
    /\ "image1" \in DOMAIN render.wf["20"].inputs
    /\ "image2" \notin DOMAIN render.wf["20"].inputs

\* C28: no step of prepare_workflow changes the caller's workflow, rules,
\* prompt or params, and preparing again from the caller's workflow with the
\* same rules, prompt, params and seed gives the same graph.
C28_InputsUntouched ==
    /\ [][vars' # vars =>
            /\ render'.base_workflow = render.base_workflow
            /\ render'.nodes = render.nodes
            /\ render'.prompt = render.prompt
            /\ render'.params = render.params]_vars
    /\ [](Rendered =>
            prepare_workflow(render.base_workflow, render.nodes, render.prompt,
                             render.params, render.eff_params["seed"])
                = [wf |-> render.wf, raised |-> FALSE])

\* C28 witness: a call that drew a seed and pruned a node has returned a graph
\* that differs from the caller's workflow.
C28_Witness ==
    /\ Rendered
    /\ "seed" \notin DOMAIN render.params
    /\ "seed" \in DOMAIN render.eff_params
    /\ DOMAIN render.wf # DOMAIN render.base_workflow
    /\ render.wf["5"].inputs["text"] # render.base_workflow["5"].inputs["text"]

\* the pass of the specification that handles a rule kind
pass_of(rtype) ==
    CASE rtype = "prompt" -> 1
      [] rtype = "negative_prompt" -> 2
      [] rtype \in {"text", "text:style"} -> 3
      [] rtype = "input_image" -> 4
      [] rtype = "input_images" -> 5
      [] OTHER -> 6

\* the writes <<node id, input key, value, pass>> the rule asks for
Writes(rule) ==
    LET rtype == lower_strip(rule.type)
        to_all(val) == {<<nid, rule.key, val, pass_of(rtype)>> : nid \in Ids(rule.node_ids)}
        if_present(name) == IF get(render.eff_params, name) # NoneValue
                            THEN to_all(get(render.eff_params, name)) ELSE {}
    IN  CASE rtype = "prompt" -> to_all(render.prompt)
          [] rtype = "negative_prompt" -> if_present("negative_prompt")
          [] rtype \in {"text", "text:style"} -> if_present("style")
          [] rtype = "input_image" -> if_present("input_image")
          [] rtype = "input_images" ->
                 {<<rule.node_ids[i], rule.key, Lit(Supplied[i]), 5>> : i \in 1..Used(rule)}
          [] rtype \in {"width", "seed"} -> if_present(rtype)
          [] OTHER -> {}

\* the writes the rules of the call ask for
AllWrites == UNION {Writes(render.nodes[k]) : k \in DOMAIN render.nodes}

\* C29: in the returned graph, a node input that rules write holds a value of
\* the latest pass (prompt, negative prompt, generic text, input image, input
\* images, catch-all) among the rules that write it, wherever those rules stand
\* in the rule list.
C29_LaterPassWins ==
    Rendered =>
        \A w \in AllWrites :
            w[1] \in DOMAIN render.wf =>
                \E last \in AllWrites :
                    /\ last[1] = w[1] /\ last[2] = w[2]
                    /\ \A other \in AllWrites :
                           (other[1] = w[1] /\ other[2] = w[2]) => other[4] <= last[4]
                    /\ render.wf[w[1]].inputs[w[2]] = last[3]

\* the kinds the passes before the catch-all pass handle
handled_before_catch_all(rtype) ==
    rtype \in {"prompt", "negative_prompt", "text", "string", "text:style",
               "input_image", "input_images"}

\* C30: in the returned graph, for every rule whose kind no earlier pass handles
\* and under whose lower-cased kind params holds a value, the input of every
\* target node holds the value of such a rule.
C30_CatchAll ==
    Rendered =>
        \A k \in DOMAIN render.nodes :
            LET rule == render.nodes[k]
                rtype == lower_strip(rule.type)
            IN  (/\ ~handled_before_catch_all(rtype)
                 /\ get(render.eff_params, rtype) # NoneValue) =>
                    \A nid \in Ids(rule.node_ids) :
                        /\ nid \in DOMAIN render.wf
                        /\ \E j \in DOMAIN render.nodes :
                               /\ ~handled_before_catch_all(lower_strip(render.nodes[j].type))
                               /\ render.nodes[j].key = rule.key
                               /\ nid \in Ids(render.nodes[j].node_ids)
                               /\ render.wf[nid].inputs[rule.key] =
                                      get(render.eff_params,
                                          lower_strip(render.nodes[j].type))

\* the caller gave a seed
ExplicitSeed ==
    "seed" \in DOMAIN render.params /\ render.params["seed"] # NoneValue

\* C31: the graph a call with an explicit seed returns is the graph
\* prepare_workflow gives for the same workflow, rules, prompt and params
\* whatever number random.randint would deliver, so two such calls return
\* identical graphs.
C31_Deterministic ==
    (Rendered /\ ExplicitSeed) =>
        \A seed \in Seeds :
            prepare_workflow(render.base_workflow, render.nodes, render.prompt,
                             render.params, seed)
                = [wf |-> render.wf, raised |-> FALSE]

\* C31 witness: a call with the explicit seed 7 and a seed rule has returned a
\* graph that holds the seed.
C31_Witness ==
    /\ Rendered
    /\ ExplicitSeed
    /\ \E k \in DOMAIN render.nodes : lower_strip(render.nodes[k].type) = "seed"
    /\ render.wf["5"].inputs["text"] = Lit("7")

\* C39: no call with a validated workflow and rule list raises an error.
C39_NeverRaises == ~render.raised

\* the target nodes the input_images rules of the call prune
Pruned == UNION {Surplus(rule) : rule \in ImagesRules}

\* an edge (sourceNodeId, outputIndex)
is_edge(v) == v.list /\ Len(v.v) = 2 /\ v.v[2] \in Numbers

\* some rule of the call targets input key of node nid
Targeted(nid, key) ==
    \E k \in DOMAIN render.nodes :
        render.nodes[k].key = key /\ nid \in Ids(render.nodes[k].node_ids)

\* C40: the returned graph has the nodes of the caller's workflow but the
\* pruned ones; an input of a remaining node is missing only if it was an edge
\* from a pruned node, and every input that no rule targets has the value it
\* has in the caller's workflow.
C40_PruningFrame ==
    Rendered =>
        /\ DOMAIN render.wf = DOMAIN render.base_workflow \ Pruned
        /\ \A nid \in DOMAIN render.wf :
               /\ render.wf[nid].class_type = render.base_workflow[nid].class_type
               /\ DOMAIN render.wf[nid].inputs \subseteq
                      DOMAIN render.base_workflow[nid].inputs
               /\ \A key \in DOMAIN render.base_workflow[nid].inputs :
                      LET v == render.base_workflow[nid].inputs[key]
                      IN  IF key \in DOMAIN render.wf[nid].inputs
                          THEN \/ render.wf[nid].inputs[key] = v
                               \/ Targeted(nid, key)
                          ELSE is_edge(v) /\ v.v[1] \in Pruned

\* C32: every entry of _pending_by_user is the count, at least 1, of a
\* requester with a positive id: no entry is zero or negative, whatever calls
\* and worker steps have been made, releases without a reservation included.
C32_NoZeroEntries ==
    \A user_id \in DOMAIN pending_by_user :
        user_id > 0 /\ pending_by_user[user_id] >= 1

\* C32 witness: the slot of a requester's only job has been freed, by the
\* worker that started it or by cancel_job, and the requester has no entry.
C32_Witness ==
    \E job \in DOMAIN jobs :
        /\ jobs[job].user_id > 0
        /\ freed[job] >= 1
        /\ jobs[job].user_id \notin DOMAIN pending_by_user

\* the items waiting in the queue of topic alias
Waiting(alias) == Get(queues, alias, <<>>)

\* C33: will_queue(alias) returns True exactly if the topic's queue is not
\* empty, or at least per_topic_limit jobs of the topic are being processed, or
\* at least max_workers jobs are being processed in all; the call leaves the
\* contents of every queue, the registry and the pending counters as they are.
C33_WillQueue ==
    /\ [](\A alias \in Aliases :
             will_queue_result(alias) <=>
                 \/ Waiting(alias) # <<>>
                 \/ Cardinality(InProgressOf(alias)) >= per_topic_limit
                 \/ Cardinality(InProgress) >= max_workers)
    /\ [][vars' # vars =>
             \A alias \in Aliases :
                 will_queue(alias) =>
                     /\ \A other \in Aliases :
                            Get(queues', other, <<>>) = Waiting(other)
                     /\ registry' = registry
                     /\ pending_by_user' = pending_by_user]_vars

\* C33 witness: will_queue has created the pool of a topic that never had a
\* job, and for this topic with an empty queue and no job in progress it
\* returns True because another topic's job holds the only global permit.
C33_Witness ==
    \E alias \in Aliases :
        /\ alias \in DOMAIN workers
        /\ \A job \in DOMAIN jobs : jobs[job].topic_alias # alias
        /\ Waiting(alias) = <<>>
        /\ InProgressOf(alias) = {}
        /\ InProgress # {}
        /\ will_queue_result(alias)

\* the uploads the job needs before its graph can be submitted
NeededUploads ==
    (IF process.needs_input_images THEN to_upload(process) ELSE 0)
        + (IF process.needs_input_image THEN 1 ELSE 0)

\* C34: at most one upload of the job is in flight at any time; the graph is
\* submitted at most once, and when it is submitted no upload is in flight,
\* none has failed and every asset the rules need has been uploaded; after a
\* failed upload the processor only reports the failure and ends: the job
\* makes no further upload and no submission.
C34_UploadsThenSubmit ==
    /\ [](process.pc # "none" =>
             /\ process.in_flight \in {0, 1}
             /\ process.submissions <= 1
             /\ process.uploads <= NeededUploads
             /\ process.failed_uploads <= 1
             /\ process.submissions = 1 =>
                    /\ process.in_flight = 0
                    /\ process.failed_uploads = 0
                    /\ process.uploads = NeededUploads
                    /\ process.saved_names + (IF process.saved_name THEN 1 ELSE 0)
                           = NeededUploads
             /\ process.failed_uploads > 0 =>
                    /\ process.pc \in {"edit_message_caption", "ended"}
                    /\ process.caption \in {"none", "uploading_input_image_failed"}
                    /\ process.submissions = 0)
    /\ [][vars' # vars =>
             ((process.pc # "none" /\ process.failed_uploads > 0) =>
                 /\ process'.uploads = process.uploads
                 /\ process'.submissions = process.submissions)]_vars

\* C34 witness: a job with two input images and a single image has submitted
\* its graph after three uploads, and the call has ended.
C34_Witness ==
    /\ process.pc = "ended"
    /\ process.outcome = "result"
    /\ process.needs_input_images
    /\ process.needs_input_image
    /\ process.uploads = 3
    /\ process.saved_names = 2
    /\ process.saved_name
    /\ process.submissions = 1

\* C35: every submit_and_wait call that has been made returns its result or
\* raises, whatever frames the engine sends and whether or not it ever sends
\* the terminal event of the tracked prompt.
C35_CallTerminates ==
    (call.pc # "idle") ~> (call.pc \in {"returned", "failed"})

\* C35 witness: a call whose engine never reported the end of the execution
\* has raised the timeout error.
C35_Witness ==
    /\ call.pc = "failed"
    /\ call.raised = "Generation timeout exceeded"
    /\ call.t_exec_done = NoTime
    /\ ~call.done
    /\ call.ws = "closed"

\* C36: in service, with workers that run and processor calls that end, every
\* accepted job is eventually marked started and handed to the processor,
\* unless it is canceled, and every accepted job, canceled or not, eventually
\* leaves the registry.
C36_JobsServed ==
    \A job \in JobIds :
        /\ (job \in DOMAIN jobs) ~>
               (job \in DOMAIN jobs
                    /\ \/ jobs[job].started /\ invoked[job] >= 1
                       \/ jobs[job].canceled)
        /\ (job \in DOMAIN jobs) ~> (job \in DOMAIN jobs /\ job \notin registry)

\* C37: once shutdown() has been called no step marks a job started and no
\* step begins a processor call.
C37_NothingStartsAfterShutdown ==
    [][vars' # vars =>
          (closed =>
               /\ \A job \in DOMAIN jobs : jobs'[job].started = jobs[job].started
               /\ invoked' = invoked)]_vars

\* C38: with workers that run and processor calls that end, every shutdown()
\* call that has been made completes: it returns after clearing the queues,
\* the pools, the registry and the counters.
C38_ShutdownCompletes ==
    (shutdown_st.pc # "idle") ~> (shutdown_st.pc = "done")

====
